---- MODULE Spec2Model ----
(***************************************************************************)
(* Model of the crawler (src/crawler/scraper.py) and of the streaming      *)
(* extractor (src/extractor/nlp_pipeline.py) with the request validation,  *)
(* the extraction endpoint and the results reader of src/api/main.py and   *)
(* src/api/validators.py, and the URL functions of src/crawler/utils.py.   *)
(*                                                                         *)
(* A URL string is a record [scheme, netloc, path]; a path is a sequence   *)
(* of the tokens "/" and segment names, so "" is <<>>, "/" is <<"/">>,     *)
(* "/a/" is <<"/", "a", "/">>.  The netloc "[" stands for a URL on which   *)
(* urlparse raises ValueError (an unterminated IPv6 literal).              *)
(***************************************************************************)
EXTENDS Integers, Sequences, FiniteSets, TLC

VARIABLES
    \* ---- crawl_domain ----
    domain,        \* argument: the root URL as given by the caller
    keywords,      \* argument: list of keyword strings
    max_pages,     \* argument
    max_depth,     \* argument
    queue,         \* deque of <<url, depth>>
    seen,          \* set of URLs already dequeued
    pages,         \* list of collected Page records
    pc,            \* "loop" | "write" | "done"
    result,        \* the returned summary (pages_scanned), or "none"
    pagesFile,     \* lines of out_path
    \* history of the crawl
    pageDepth,     \* queue depth at which each element of pages was dequeued
    resp,          \* response received by the last iteration, NoneResp if it fetched nothing
    cur,           \* the task dequeued by the last iteration, and whether it was fetched
    \* the site
    robotsTxt      \* what a fetch of the root's robots.txt ends in during this crawl

crawlVars == <<domain, keywords, max_pages, max_depth, queue, seen, pages, pc,
               result, pagesFile, pageDepth, resp, cur, robotsTxt>>

VARIABLES
    \* ---- extract_entities ----
    kw,            \* _keywords_list(keywords)
    st_model,      \* TRUE when the sentence-embedding model can be loaded
    cancel_path,   \* argument: TRUE when a cancel path is given
    cancelMarker,  \* TRUE when the file at cancel_path exists
    best,          \* the de-dup store, in insertion order
    pages_scanned,
    lineNo,        \* lines of pages_path consumed
    epc,           \* "start" | "loop" | "dump_page" | "dump_final" | "done"
    entities,      \* the list built by the last _emit_entities
    entFile,       \* content of entities_path
    ret,           \* the returned record, once epc = "done"
    \* history of the extraction
    top,           \* pairs <<key, score>>: the highest score that passed the floor, per key
    collided,      \* how candidates that met an occupied key compared with it
    \* ---- a client polling the results reader ----
    lastPoll       \* length of the list returned by the last poll, -1 before any

extractVars == <<kw, st_model, cancel_path, cancelMarker, best, pages_scanned,
                 lineNo, epc, entities, entFile, ret, top, collided,
                 lastPoll>>

VARIABLES
    \* ---- the call of extract_entities ----
    caller,        \* "direct", or "api" when _do_extract makes the call
    pagesPresent,  \* TRUE when the file at pages_path exists
    raised         \* the exception that ended the call, "none" if none did

callVars == <<caller, pagesPresent, raised>>

VARIABLES
    \* ---- a call of a URL function ----
    url_arg,       \* the argument, a string as a sequence of tokens
    url_fn,        \* the function applied last, "none" before the call
    url_result     \* what the call returned or raised

urlVars == <<url_arg, url_fn, url_result>>

VARIABLES
    \* ---- a second crawl of the same site, from whose queue tasks with a
    \*      visited URL are removed before they are dequeued ----
    queueD,
    seenD,
    pagesD,
    pcD,           \* "idle" | "loop" | "done"
    align,         \* align[i] is TRUE when queue[i] was removed from queueD
    dropped        \* TRUE once a task was removed from queueD

dedupVars == <<queueD, seenD, pagesD, pcD, align, dropped>>

VARIABLES
    \* ---- what crawl_domain has done on the network ----
    robotsFetches, \* requests for robots.txt made so far (rp.read())
    pageRequests,  \* page requests made so far (session.get)
    sleptSince,    \* TRUE when time.sleep(delay) ran after the last page request
    gate,          \* the keyword gate of the last iteration: the title and text
                   \* of the page it recorded, and whether its links were expanded
    observed       \* TRUE in the specifications that keep this history

netVars == <<robotsFetches, pageRequests, sleptSince, gate, observed>>

VARIABLES
    \* ---- the merge loop of extract_entities run on the same candidates
    \*      in two orders ----
    cands_in,      \* the candidates in the order the loop meets them
    cands_perm,    \* the same candidates in another order
    merged_in,     \* the entity list built from cands_in
    merged_perm,   \* the entity list built from cands_perm
    mpc            \* "idle" | "start" | "first" | "both"

mergeVars == <<cands_in, cands_perm, merged_in, merged_perm, mpc>>

VARIABLES
    \* ---- two requests served at the same time, each by its own worker
    \*      thread or background task; both use PAGES_PATH (pagesFile) and
    \*      ENTITIES_PATH (entFile) ----
    runKind,       \* per run: "crawl" (/api/crawl) or "crawl-and-extract"
    runPc,         \* per run: the place of the run in its code
    runPages,      \* per run: the pages list of its crawl_domain
    runRead        \* per run: the lines its extract_entities read from the pages file

overlapVars == <<runKind, runPc, runPages, runRead>>

VARIABLES
    \* ---- a call of enhance_entities (src/extractor/ai_enhance.py) ----
    raw,           \* argument: the raw candidates
    HAVE_SK,       \* TRUE when sklearn could be imported
    HAVE_RF,       \* TRUE when rapidfuzz could be imported
    enriched,      \* the candidates with their final score
    out,           \* the returned list
    enhpc          \* "idle" | "start" | "done"

enhanceVars == <<raw, HAVE_SK, HAVE_RF, enriched, out, enhpc>>

VARIABLES
    \* ---- crawl of src/crawler/crawler.py, called with domain and max_depth ----
    queueC,        \* its queue of <<url, depth>>
    visited,       \* its set of normalized URLs
    results,       \* its list of page records
    output_file,   \* the lines of output_path
    pcC            \* "idle" | "loop" | "done"

canonVars == <<queueC, visited, results, output_file, pcC>>

\* the state of the parts that neither the crawl, the extraction nor the URL
\* functions touch
restVars == <<mergeVars, overlapVars, enhanceVars, canonVars>>

\* what a step of crawl_domain leaves alone, what a step of extract_entities
\* leaves alone, what a call of a URL function leaves alone, and what a step
\* of the second crawl leaves alone
notCrawlVars == <<extractVars, callVars, urlVars, dedupVars, restVars>>
notExtractVars == <<crawlVars, urlVars, dedupVars, netVars, restVars>>
notUrlVars == <<crawlVars, extractVars, callVars, dedupVars, netVars, restVars>>
notDedupVars == <<extractVars, callVars, urlVars, restVars>>

vars == <<crawlVars, extractVars, callVars, urlVars, dedupVars, netVars,
          restVars>>

(***************************************************************************)
(* Bounds of the model.                                                    *)
(***************************************************************************)
MaxPagesBound == 2     \* max_pages ranges over 1..MaxPagesBound
MaxDepthBound == 1     \* max_depth ranges over 0..MaxDepthBound
MaxLinks == 2          \* anchors per fetched page
MaxLines == 2          \* lines of the pages file
MaxCands == 2          \* PERSON candidates per page

(***************************************************************************)
(* Strings.                                                                *)
(***************************************************************************)
BadNetloc == "["

\* str.lower() on the strings of the model
Lower(s) ==
    CASE s = "A.com" -> "a.com"
      [] s = "Ann" -> "ann"
      [] s = "ANN" -> "ann"
      [] s = "CTO" -> "cto"
      [] s = "Person" -> "person"
      [] s = "Dean" -> "dean"
      [] OTHER -> s

RECURSIVE RStripSlash(_)
\* str.rstrip("/") on the path part of a URL without query or fragment
RStripSlash(p) ==
    IF p # <<>> /\ p[Len(p)] = "/" THEN RStripSlash(SubSeq(p, 1, Len(p) - 1))
    ELSE p

Url(s, n, p) == [scheme |-> s, netloc |-> n, path |-> p]

\* the anchors a page can carry: absolute targets, with or without fragment
Href(s, n, p, f) == [scheme |-> s, netloc |-> n, path |-> p, frag |-> f]

Hrefs ==
    { Href("http", "a.com", <<"/">>, FALSE),
      Href("http", "A.com", <<"/", "a">>, TRUE),
      Href("http", "b.com", <<"/", "a">>, FALSE),
      Href("mailto", "", <<"a">>, FALSE) }

\* str.startswith("http")
StartsWithHttp(s) == s \in {"http", "https"}

\* Python's None, as a value of each type that can be None
None == "none"
NoneUrl == [scheme |-> "none", netloc |-> "", path |-> <<>>]
NoneResp == [kind |-> "none", status |-> 0, ctype |-> <<>>]

\* _normalize_url: join, drop the fragment, reject non-http schemes
normalize_url_link(href) ==
    IF ~StartsWithHttp(href.scheme) THEN NoneUrl
    ELSE Url(href.scheme, href.netloc, href.path)

\* urlparse(u).netloc, or the marker "raise" when urlparse raises
ParseNetloc(u) == IF u.netloc = BadNetloc THEN "raise" ELSE u.netloc

same_site_AnyHost(u, root) ==
    ~(ParseNetloc(u) = "raise" \/ ParseNetloc(root) = "raise")

\* _same_site
same_site(u, root) ==
    IF ParseNetloc(u) = "raise" \/ ParseNetloc(root) = "raise" THEN FALSE
    ELSE Lower(ParseNetloc(u)) = Lower(ParseNetloc(root))

RECURSIVE extract_links(_)
\* _extract_links: the normalized anchors of a page, rejected ones dropped
extract_links(hrefs) ==
    IF hrefs = <<>> THEN <<>>
    ELSE LET u == normalize_url_link(Head(hrefs))
         IN  (IF u = NoneUrl THEN <<>> ELSE <<u>>) \o extract_links(Tail(hrefs))

(***************************************************************************)
(* Fetcher.                                                                *)
(***************************************************************************)
\* a Content-Type header value as a sequence of tokens; <<>> is a missing header
Response(k, st, ct) == [kind |-> k, status |-> st, ctype |-> ct]

Responses ==
    { Response("response", 200, <<"text/html", "; charset=utf-8">>),
      Response("response", 200, <<"application/json">>),
      Response("response", 200, <<>>),
      Response("response", 404, <<"text/html">>),
      Response("RequestException", 0, <<>>) }

\* "text/html" in header
ContainsHtml(ct) == \E i \in 1..Len(ct) : ct[i] = "text/html"

fetch_AnyType(r) ==
    IF r.kind = "RequestException" THEN NoneResp
    ELSE IF r.status = 200 THEN r
    ELSE NoneResp

\* _fetch: the response, or None
fetch(r) ==
    IF r.kind = "RequestException" THEN NoneResp
    ELSE IF r.status = 200 /\ ContainsHtml(r.ctype) THEN r
    ELSE NoneResp

(***************************************************************************)
(* crawl_domain                                                            *)
(***************************************************************************)
BreakerFactor == 8

\* root = domain.rstrip("/")
Root == Url(domain.scheme, domain.netloc, RStripSlash(domain.path))

\* k.strip() for the keyword strings of the model
Strip(k) == IF k = " " THEN "" ELSE k

\* the keyword gate: any(k.strip().lower() in body_low for k in keywords if k.strip())
kw_ok(bodyWords) ==
    IF keywords = <<>> THEN TRUE
    ELSE \E i \in 1..Len(keywords) :
            Strip(keywords[i]) # "" /\ Strip(keywords[i]) \in bodyWords

RECURSIVE EnqueueLinks(_, _, _)
\* the links appended to the queue: not in seen and on the root's site
EnqueueLinks(links, sn, depth) ==
    IF links = <<>> THEN <<>>
    ELSE (IF Head(links) \notin sn /\ same_site(Head(links), Root)
          THEN <<<<Head(links), depth + 1>>>> ELSE <<>>)
         \o EnqueueLinks(Tail(links), sn, depth)

\* the default length of the text prefix that the keyword gate reads
GatePrefix == 4000

\* the title and text of a page, as far as the keyword gate goes: low holds
\* the words of body_low, the lowered title and first GatePrefix characters
\* of the text; late holds the words found only further on in the text
Body(l, t) == [low |-> l, late |-> t]

Bodies == {Body({}, {}), Body({"k"}, {}), Body({}, {"k"})}

\* the iteration recorded no page
NoGate == [recorded |-> FALSE, body |-> Body({}, {}), expanded |-> FALSE]

\* the iteration recorded a page with this title and text
Gated(body, expanded) == [recorded |-> TRUE, body |-> body, expanded |-> expanded]

SeqsUpTo(S, n) == UNION {[1..k -> S] : k \in 0..n}

\* the root URLs given to the crawl
Domains ==
    { Url("http", "a.com", <<"/">>),
      Url("http", BadNetloc, <<>>) }

\* a relative link that only the n-th collected page carries, so that every
\* page can lead to a URL no earlier page has offered
PageNames == <<"p1", "p2", "p3", "p4", "p5">>
FreshHref(n) == Href("http", domain.netloc, <<"/", PageNames[n]>>, FALSE)

Task(u, d, f) == [url |-> u, depth |-> d, fetched |-> f]

\* no call of extract_entities is made
CallIdle ==
    /\ caller = "direct"
    /\ pagesPresent = TRUE
    /\ raised = "none"

\* no URL function is called
NoResult == [kind |-> "none", value |-> <<>>]

UrlIdle ==
    /\ url_arg = <<>>
    /\ url_fn = "none"
    /\ url_result = NoResult

\* no second crawl is run
DedupIdle ==
    /\ queueD = <<>>
    /\ seenD = {}
    /\ pagesD = <<>>
    /\ pcD = "idle"
    /\ align = <<>>
    /\ dropped = FALSE

\* no merge is run on its own
MergeIdle ==
    /\ cands_in = <<>>
    /\ cands_perm = <<>>
    /\ merged_in = <<>>
    /\ merged_perm = <<>>
    /\ mpc = "idle"

\* no two requests are served side by side
OverlapIdle ==
    /\ runKind = <<>>
    /\ runPc = <<>>
    /\ runPages = <<>>
    /\ runRead = <<>>

\* enhance_entities is not called
EnhanceIdle ==
    /\ raw = <<>>
    /\ HAVE_SK = FALSE
    /\ HAVE_RF = FALSE
    /\ enriched = <<>>
    /\ out = <<>>
    /\ enhpc = "idle"

\* crawl of crawler.py is not called
CanonIdle ==
    /\ queueC = <<>>
    /\ visited = {}
    /\ results = <<>>
    /\ output_file = <<>>
    /\ pcC = "idle"

\* the parts that only their own specification runs are idle
RestIdle ==
    /\ MergeIdle
    /\ OverlapIdle
    /\ EnhanceIdle
    /\ CanonIdle

\* the crawl has made no request
NetIdle ==
    /\ robotsFetches = 0
    /\ pageRequests = 0
    /\ sleptSince = FALSE
    /\ gate = NoGate
    /\ observed = FALSE

\* the crawl has made no request, and the history of its requests is kept
NetObserved ==
    /\ robotsFetches = 0
    /\ pageRequests = 0
    /\ sleptSince = FALSE
    /\ gate = NoGate
    /\ observed = TRUE

\* a counter of the history after an iteration in which the counted thing
\* happened or not, and a note of the history after an iteration
Counted(n, happened) == IF observed /\ happened THEN n + 1 ELSE n
Noted(old, new) == IF observed THEN new ELSE old

\* the extractor before it is called
ExtractIdle ==
    /\ kw = <<>>
    /\ st_model = FALSE
    /\ cancel_path = FALSE
    /\ cancelMarker = FALSE
    /\ best = <<>>
    /\ pages_scanned = 0
    /\ lineNo = 0
    /\ epc = "start"
    /\ entities = <<>>
    /\ entFile = [kind |-> "empty", list |-> <<>>]
    /\ ret = None
    /\ top = {}
    /\ collided = {}
    /\ lastPoll = -1

CrawlInit ==
    /\ domain \in Domains
    /\ keywords \in {<<>>, <<"k">>, <<" ">>}
    /\ max_pages \in 1..MaxPagesBound
    /\ max_depth \in 0..MaxDepthBound
    /\ queue = <<<<Root, 0>>>>
    /\ seen = {}
    /\ pages = <<>>
    /\ pc = "loop"
    /\ result = None
    /\ pagesFile = <<>>
    /\ pageDepth = <<>>
    /\ resp = NoneResp
    /\ cur = Task(NoneUrl, 0, FALSE)
    /\ robotsTxt = "rules"
    /\ NetIdle
    /\ RestIdle
    /\ ExtractIdle
    /\ CallIdle
    /\ UrlIdle
    /\ DedupIdle

(***************************************************************************)
(* The robots gate.  RobotFileParser.read() fetches robots.txt with        *)
(* urlopen and handles urllib.error.HTTPError itself; any other exception  *)
(* leaves it.                                                              *)
(***************************************************************************)
\* what the fetch of robots.txt ends in: a body that is parsed into rules, a
\* connection that fails, an HTTP error status, a body that is not UTF-8
RobotsOutcomes ==
    {"rules", "URLError", "HTTP401", "HTTP403", "HTTP404", "HTTP500",
     "UnicodeDecodeError"}

\* the outcomes in which no robots.txt was fetched and parsed
RobotsFailures == RobotsOutcomes \ {"rules"}

\* the parser after rp.set_url(robots_url); rp.read()
robots_read(outcome) ==
    [raised |-> outcome \in {"URLError", "UnicodeDecodeError"},
     disallow_all |-> outcome \in {"HTTP401", "HTTP403"},
     allow_all |-> outcome = "HTTP404",
     last_checked |-> outcome = "rules"]

\* rp.can_fetch("*", url); rule_allows is what the rules say of the URL
can_fetch(rp, rule_allows) ==
    IF rp.disallow_all THEN FALSE
    ELSE IF rp.allow_all THEN TRUE
    ELSE IF ~rp.last_checked THEN FALSE
    ELSE rule_allows

\* _robots_allowed, with CP_IGNORE_ROBOTS unset
robots_allowed(outcome, rule_allows) ==
    LET rp == robots_read(outcome)
    IN  IF rp.raised THEN TRUE ELSE can_fetch(rp, rule_allows)

\* get_robots_parser of crawler/utils.py: None stands for "allow all"
get_robots_parser(outcome) ==
    LET rp == robots_read(outcome)
    IN  IF rp.raised THEN [none |-> TRUE, rp |-> rp] ELSE [none |-> FALSE, rp |-> rp]

\* is_allowed_by_robots of crawler/utils.py
is_allowed_by_robots(parser, rule_allows) ==
    IF parser.none THEN TRUE ELSE can_fetch(parser.rp, rule_allows)

\* a crawl of a site in any state of its robots.txt
RobotsInit ==
    /\ domain = Url("http", "a.com", <<"/">>)
    /\ keywords = <<>>
    /\ max_pages \in 1..MaxPagesBound
    /\ max_depth \in 0..MaxDepthBound
    /\ queue = <<<<Root, 0>>>>
    /\ seen = {}
    /\ pages = <<>>
    /\ pc = "loop"
    /\ result = None
    /\ pagesFile = <<>>
    /\ pageDepth = <<>>
    /\ resp = NoneResp
    /\ cur = Task(NoneUrl, 0, FALSE)
    /\ robotsTxt \in RobotsOutcomes
    /\ NetIdle
    /\ RestIdle
    /\ ExtractIdle
    /\ CallIdle
    /\ UrlIdle
    /\ DedupIdle

LoopGuard_NoPageLimit == queue # <<>>

\* while queue and len(pages) < max_pages
LoopGuard == queue # <<>> /\ Len(pages) < max_pages

popleft_Peek(q) == q

\* queue.popleft(): the queue that is left
popleft(q) == Tail(q)

\* the default of CP_REQUEST_DELAY_MS
delay_ms == 300

\* _robots_allowed is called for the task: the depth and host tests before
\* it did not end the iteration
RobotsAsked(url, depth) ==
    /\ ~(depth > max_depth)
    /\ same_site(url, Root)

Gate_NoDepth(url, depth, allowed) ==
    /\ same_site(url, Root)
    /\ allowed

\* the three tests between seen.add(url) and the fetch; TRUE when the task
\* goes on to _fetch
Gate(url, depth, allowed) ==
    /\ ~(depth > max_depth)
    /\ same_site(url, Root)
    /\ allowed

\* url in seen: continue
SkipSeen ==
    /\ pc = "loop" /\ LoopGuard
    /\ Head(queue)[1] \in seen
    /\ queue' = popleft(queue)
    /\ cur' = Task(Head(queue)[1], Head(queue)[2], FALSE)
    /\ resp' = NoneResp
    /\ gate' = Noted(gate, NoGate)
    /\ UNCHANGED <<notCrawlVars, robotsTxt, robotsFetches, pageRequests, sleptSince,
                   observed>>
    /\ UNCHANGED <<domain, keywords, max_pages, max_depth, seen, pages, pc,
                   result, pagesFile, pageDepth>>

\* depth > max_depth, another site, or robots denies: mark seen and continue
SkipRejected ==
    /\ pc = "loop" /\ LoopGuard
    /\ LET url == Head(queue)[1]
           depth == Head(queue)[2]
       IN  /\ url \notin seen
           /\ \E rule_allows \in BOOLEAN :
                ~Gate(url, depth, robots_allowed(robotsTxt, rule_allows))
           /\ seen' = seen \cup {url}
           /\ robotsFetches' = Counted(robotsFetches, RobotsAsked(url, depth))
    /\ cur' = Task(Head(queue)[1], Head(queue)[2], FALSE)
    /\ queue' = popleft(queue)
    /\ resp' = NoneResp
    /\ gate' = Noted(gate, NoGate)
    /\ UNCHANGED <<notCrawlVars, robotsTxt, pageRequests, sleptSince, observed>>
    /\ UNCHANGED <<domain, keywords, max_pages, max_depth, pages, pc,
                   result, pagesFile, pageDepth>>

\* _fetch returns None: continue
FetchFail ==
    /\ pc = "loop" /\ LoopGuard
    /\ LET url == Head(queue)[1]
           depth == Head(queue)[2]
       IN  /\ url \notin seen
           /\ \E rule_allows \in BOOLEAN :
                Gate(url, depth, robots_allowed(robotsTxt, rule_allows))
           /\ \E r \in Responses :
                /\ fetch(r) = NoneResp
                /\ resp' = r
           /\ seen' = seen \cup {url}
    /\ robotsFetches' = Counted(robotsFetches, TRUE)
    /\ pageRequests' = Counted(pageRequests, TRUE)
    /\ sleptSince' = Noted(sleptSince, FALSE)
    /\ gate' = Noted(gate, NoGate)
    /\ cur' = Task(Head(queue)[1], Head(queue)[2], TRUE)
    /\ queue' = popleft(queue)
    /\ UNCHANGED <<notCrawlVars, robotsTxt, observed>>
    /\ UNCHANGED <<domain, keywords, max_pages, max_depth, pages, pc,
                   result, pagesFile, pageDepth>>

\* the page is fetched, recorded, its links enqueued; the breaker is tested.
\* The anchors of a page whose keyword gate is closed are not read, so they
\* are enumerated only for a page whose gate is open.
AcceptWith(anchorLists) ==
    /\ pc = "loop" /\ LoopGuard
    /\ LET url == Head(queue)[1]
           depth == Head(queue)[2]
       IN  /\ url \notin seen
           /\ \E rule_allows \in BOOLEAN :
                Gate(url, depth, robots_allowed(robotsTxt, rule_allows))
           /\ \E r \in Responses, body \in Bodies, hrefs \in anchorLists :
                /\ fetch(r) # NoneResp
                /\ resp' = r
                /\ kw_ok(body.low) \/ hrefs = <<>>
                /\ gate' = Noted(gate, Gated(body, kw_ok(body.low)))
                /\ LET sn == seen \cup {url}
                       new == IF kw_ok(body.low)
                              THEN EnqueueLinks(extract_links(hrefs), sn, depth)
                              ELSE <<>>
                   IN  /\ seen' = sn
                       /\ queue' = popleft(queue) \o new
                       /\ pc' = IF Cardinality(sn) > max_pages * BreakerFactor
                                THEN "write" ELSE "loop"
           /\ pages' = Append(pages, [url |-> url])
           /\ pageDepth' = Append(pageDepth, depth)
    /\ robotsFetches' = Counted(robotsFetches, TRUE)
    /\ pageRequests' = Counted(pageRequests, TRUE)
    /\ sleptSince' = Noted(sleptSince, delay_ms > 0)
    /\ cur' = Task(Head(queue)[1], Head(queue)[2], TRUE)
    /\ UNCHANGED <<notCrawlVars, robotsTxt, observed>>
    /\ UNCHANGED <<domain, keywords, max_pages, max_depth, result, pagesFile>>

\* a page with up to MaxLinks anchors
AcceptPage ==
    AcceptWith(SeqsUpTo(Hrefs \cup {FreshHref(Len(pages) + 1)}, MaxLinks))

\* the loop condition is false
ExitLoop ==
    /\ pc = "loop" /\ ~LoopGuard
    /\ pc' = "write"
    /\ UNCHANGED <<notCrawlVars, robotsTxt, netVars>>
    /\ UNCHANGED <<domain, keywords, max_pages, max_depth, queue, seen, pages,
                   result, pagesFile, pageDepth, resp, cur>>

\* write out_path and return the summary
WriteOutput ==
    /\ pc = "write"
    /\ pagesFile' = pages
    /\ result' = [domain |-> Root, pages_scanned |-> Len(pages)]
    /\ pc' = "done"
    /\ UNCHANGED <<notCrawlVars, robotsTxt, netVars>>
    /\ UNCHANGED <<domain, keywords, max_pages, max_depth, queue, seen, pages,
                   pageDepth, resp, cur>>

Next ==
    \/ SkipSeen
    \/ SkipRejected
    \/ FetchFail
    \/ AcceptPage
    \/ ExitLoop
    \/ WriteOutput

Spec == CrawlInit /\ [][Next]_vars

\* crawl_domain is one sequential loop: whenever it can take a step it does
FairSpec == CrawlInit /\ [][Next]_vars /\ WF_vars(Next)

RobotsSpec == RobotsInit /\ [][Next]_vars

\* a crawl whose requests, sleeps and keyword gates are kept as history
TraceInit ==
    /\ domain \in Domains
    /\ keywords \in {<<>>, <<"k">>, <<" ">>}
    /\ max_pages \in 1..MaxPagesBound
    /\ max_depth \in 0..MaxDepthBound
    /\ queue = <<<<Root, 0>>>>
    /\ seen = {}
    /\ pages = <<>>
    /\ pc = "loop"
    /\ result = None
    /\ pagesFile = <<>>
    /\ pageDepth = <<>>
    /\ resp = NoneResp
    /\ cur = Task(NoneUrl, 0, FALSE)
    /\ robotsTxt = "rules"
    /\ NetObserved
    /\ RestIdle
    /\ ExtractIdle
    /\ CallIdle
    /\ UrlIdle
    /\ DedupIdle

TraceSpec == TraceInit /\ [][Next]_vars

(***************************************************************************)
(* A crawl of a site that serves a page whose markup the HTML parser       *)
(* rejects: BeautifulSoup raises in _clean_text or in _extract_links,      *)
(* which crawl_domain calls outside any try block.                         *)
(***************************************************************************)
FaultPlaces == {"_clean_text", "_extract_links"}

\* the page is fetched and an exception leaves crawl_domain: before the page
\* is appended when _clean_text raises, after it when _extract_links does
\* (which is called only when the keyword gate is open)
Fault ==
    /\ pc = "loop" /\ LoopGuard
    /\ LET url == Head(queue)[1]
           depth == Head(queue)[2]
       IN  /\ url \notin seen
           /\ \E rule_allows \in BOOLEAN :
                Gate(url, depth, robots_allowed(robotsTxt, rule_allows))
           /\ \E r \in Responses, body \in Bodies, place \in FaultPlaces :
                /\ fetch(r) # NoneResp
                /\ resp' = r
                /\ place = "_extract_links" => kw_ok(body.low)
                /\ gate' = Noted(gate, IF place = "_extract_links"
                                        THEN Gated(body, TRUE) ELSE NoGate)
                /\ pages' = IF place = "_extract_links"
                            THEN Append(pages, [url |-> url]) ELSE pages
                /\ pageDepth' = IF place = "_extract_links"
                                THEN Append(pageDepth, depth) ELSE pageDepth
           /\ seen' = seen \cup {url}
    /\ queue' = popleft(queue)
    /\ pc' = "raised"
    /\ robotsFetches' = Counted(robotsFetches, TRUE)
    /\ pageRequests' = Counted(pageRequests, TRUE)
    /\ sleptSince' = Noted(sleptSince, FALSE)
    /\ cur' = Task(Head(queue)[1], Head(queue)[2], TRUE)
    /\ UNCHANGED <<notCrawlVars, robotsTxt, observed>>
    /\ UNCHANGED <<domain, keywords, max_pages, max_depth, result, pagesFile>>

FaultNext ==
    \/ SkipSeen
    \/ SkipRejected
    \/ FetchFail
    \/ AcceptPage
    \/ Fault
    \/ ExitLoop
    \/ WriteOutput

FaultSpec == CrawlInit /\ [][FaultNext]_vars

(***************************************************************************)
(* A crawl of a site whose pages carry many links, for the circuit breaker *)
(***************************************************************************)
MaxHubLinks == 17      \* anchors of a hub page

LinkNames ==
    <<"l1", "l2", "l3", "l4", "l5", "l6", "l7", "l8", "l9", "l10", "l11",
      "l12", "l13", "l14", "l15", "l16", "l17", "l18", "l19", "l20">>

\* the i-th link of a hub page, on the site of the root
HubHref(i) == Href("http", domain.netloc, <<"/", LinkNames[i]>>, FALSE)

\* the anchor lists of a hub page: its first n links, each different
HubAnchorLists == {[i \in 1..n |-> HubHref(i)] : n \in 0..MaxHubLinks}

\* crawl_domain(domain, [], 2, 1, out_path)
BreakerInit ==
    /\ domain = Url("http", "a.com", <<"/">>)
    /\ keywords = <<>>
    /\ max_pages = 2
    /\ max_depth = 1
    /\ queue = <<<<Root, 0>>>>
    /\ seen = {}
    /\ pages = <<>>
    /\ pc = "loop"
    /\ result = None
    /\ pagesFile = <<>>
    /\ pageDepth = <<>>
    /\ resp = NoneResp
    /\ cur = Task(NoneUrl, 0, FALSE)
    /\ robotsTxt = "rules"
    /\ NetIdle
    /\ RestIdle
    /\ ExtractIdle
    /\ CallIdle
    /\ UrlIdle
    /\ DedupIdle

\* a hub page is accepted
AcceptHub == AcceptWith(HubAnchorLists)

\* no link occurs twice, so no dequeued URL is in seen
BreakerNext ==
    \/ SkipRejected
    \/ FetchFail
    \/ AcceptHub
    \/ ExitLoop
    \/ WriteOutput

BreakerSpec == BreakerInit /\ [][BreakerNext]_vars

(***************************************************************************)
(* The crawl request (src/api/main.py, src/api/validators.py)              *)
(***************************************************************************)
\* the defaults of validate_max_pages and validate_max_depth
PagesMinVal == 1
PagesMaxVal == 1000
DepthMinVal == 0
DepthMaxVal == 10

validate_max_pages_NoUpper(v) ==
    IF v < PagesMinVal THEN [raises |-> TRUE, value |-> v]
    ELSE [raises |-> FALSE, value |-> v]

\* validate_max_pages: the value, or ValidationError
validate_max_pages(v) ==
    IF v < PagesMinVal THEN [raises |-> TRUE, value |-> v]
    ELSE IF v > PagesMaxVal THEN [raises |-> TRUE, value |-> v]
    ELSE [raises |-> FALSE, value |-> v]

\* validate_max_depth: the value, or ValidationError
validate_max_depth(v) ==
    IF v < DepthMinVal THEN [raises |-> TRUE, value |-> v]
    ELSE IF v > DepthMaxVal THEN [raises |-> TRUE, value |-> v]
    ELSE [raises |-> FALSE, value |-> v]

\* the field validators of CrawlRequest all pass
RequestValid ==
    /\ ~validate_max_pages(max_pages).raises
    /\ ~validate_max_depth(max_depth).raises

\* the max_pages and max_depth of the requests: values on both sides of the
\* two ranges, and the values a crawl of the model runs with
RequestPages == {PagesMinVal - 2, PagesMinVal - 1} \cup (1..MaxPagesBound) \cup {PagesMaxVal + 1}
RequestDepths == {DepthMinVal - 1} \cup (0..MaxDepthBound) \cup {DepthMaxVal + 1}

\* what an earlier crawl and extraction left in the two data files
OldPages == <<[url |-> Url("http", "old.com", <<>>)]>>
OldEntities ==
    <<[name |-> "Ann", type |-> "Person", url |-> "http://old.com/team",
       snippet |-> "s1", score |-> 700]>>

\* a POST /api/crawl has arrived and its body is about to be validated
RequestInit ==
    /\ domain = Url("http", "a.com", <<"/">>)
    /\ keywords = <<>>
    /\ max_pages \in RequestPages
    /\ max_depth \in RequestDepths
    /\ queue = <<>>
    /\ seen = {}
    /\ pages = <<>>
    /\ pc = "request"
    /\ result = None
    /\ pagesFile = OldPages
    /\ pageDepth = <<>>
    /\ resp = NoneResp
    /\ cur = Task(NoneUrl, 0, FALSE)
    /\ robotsTxt = "rules"
    /\ kw = <<>>
    /\ st_model = FALSE
    /\ cancel_path = FALSE
    /\ cancelMarker = FALSE
    /\ best = <<>>
    /\ pages_scanned = 0
    /\ lineNo = 0
    /\ epc = "start"
    /\ entities = <<>>
    /\ entFile = [kind |-> "array", list |-> OldEntities]
    /\ ret = None
    /\ top = {}
    /\ collided = {}
    /\ lastPoll = -1
    /\ NetIdle
    /\ RestIdle
    /\ CallIdle
    /\ UrlIdle
    /\ DedupIdle

\* a field validator raises: the request is answered 422 and the handler
\* is not called
RejectRequest ==
    /\ pc = "request"
    /\ ~RequestValid
    /\ pc' = "rejected"
    /\ UNCHANGED <<domain, keywords, max_pages, max_depth, queue, seen, pages,
                   result, pagesFile, pageDepth, resp, cur, robotsTxt>>
    /\ UNCHANGED <<notCrawlVars, netVars>>

\* _do_crawl: both data files are cleared and crawl_domain is entered
StartCrawl ==
    /\ pc = "request"
    /\ RequestValid
    /\ pagesFile' = <<>>
    /\ entFile' = [kind |-> "empty", list |-> <<>>]
    /\ queue' = <<<<Root, 0>>>>
    /\ seen' = {}
    /\ pages' = <<>>
    /\ pc' = "loop"
    /\ UNCHANGED <<domain, keywords, max_pages, max_depth, result, pageDepth,
                   resp, cur, robotsTxt>>
    /\ UNCHANGED <<kw, st_model, cancel_path, cancelMarker, best, pages_scanned,
                   lineNo, epc, entities, ret, top, collided, lastPoll>>
    /\ UNCHANGED <<callVars, urlVars, dedupVars, netVars, restVars>>

RequestNext ==
    \/ RejectRequest
    \/ StartCrawl
    \/ SkipSeen
    \/ SkipRejected
    \/ FetchFail
    \/ AcceptPage
    \/ ExitLoop
    \/ WriteOutput

RequestSpec == RequestInit /\ [][RequestNext]_vars

(***************************************************************************)
(* Claims about crawl_domain                                               *)
(***************************************************************************)

\* C1: at every point of the crawl the number of collected pages is at most
\* max_pages, and so is the returned pages_scanned.
C1_PagesAtMostMax ==
    /\ Len(pages) <= max_pages
    /\ pc = "done" => result.pages_scanned <= max_pages

\* the page limit, not an empty queue, ended a crawl
C1_Witness ==
    /\ pc = "done"
    /\ result.pages_scanned = max_pages
    /\ queue # <<>>

\* C2: every collected page was dequeued at a depth <= max_depth, and no task
\* deeper than max_depth is ever fetched.
C2_DepthAtMostMax ==
    /\ \A i \in 1..Len(pageDepth) : pageDepth[i] <= max_depth
    /\ cur.fetched => cur.depth <= max_depth

\* a task deeper than max_depth was dequeued, marked seen and left unfetched
C2_Witness ==
    /\ cur.depth > max_depth
    /\ cur.url \in seen
    /\ ~cur.fetched
    /\ Len(pages) >= 1

\* the host of a URL, compared without regard to case
HostOf(u) == Lower(u.netloc)

\* C3: every collected page is on the host of the input domain, and no URL of
\* another host is ever fetched or enqueued.
C3_SameHost ==
    /\ \A i \in 1..Len(pages) : HostOf(pages[i].url) = HostOf(domain)
    /\ cur.fetched => HostOf(cur.url) = HostOf(domain)
    /\ \A i \in 1..Len(queue) : HostOf(queue[i][1]) = HostOf(domain)

\* a page whose network location differs from the domain's in case only was
\* collected after the root
C3_Witness ==
    /\ Len(pages) >= 2
    /\ \E i \in 1..Len(pages) :
          /\ pages[i].url.netloc # domain.netloc
          /\ HostOf(pages[i].url) = HostOf(domain)

\* C4: every crawl terminates.
C4_Terminates == <>(pc = "done")

\* a crawl ended by the page limit after every page it collected had offered
\* a link that no page before had offered
C4_Witness ==
    /\ pc = "done"
    /\ Len(pages) >= 2
    /\ \A n \in 1..Len(pages) :
          \/ Url("http", domain.netloc, <<"/", PageNames[n]>>) \in seen
          \/ \E i \in 1..Len(queue) :
                queue[i][1] = Url("http", domain.netloc, <<"/", PageNames[n]>>)

\* the response is one that the fetcher accepts: 200 with an HTML content type
IsHtml200(r) == r.kind = "response" /\ r.status = 200 /\ ContainsHtml(r.ctype)

\* C5: an iteration whose fetch ends in a network error, a status other than
\* 200 or a content type without text/html records no page and goes on with
\* the next queued task.
C5_BadFetchSkipped ==
    [][ (seen' # seen /\ cur'.fetched /\ ~IsHtml200(resp'))
        => /\ pages' = pages
           /\ queue' = Tail(queue)
           /\ pc' = "loop" ]_vars

\* an application/json response was dropped and the crawl has a next task
C5_Witness ==
    /\ resp.kind = "response" /\ resp.status = 200
    /\ resp.ctype = <<"application/json">>
    /\ cur.fetched
    /\ \A i \in 1..Len(pages) : pages[i].url # cur.url
    /\ pc = "loop" /\ queue # <<>>

\* C17: when robots.txt cannot be fetched or parsed both robots gates answer
\* allow for every URL, whatever rules the site would have served, and the
\* crawl fetches every task that passes the depth and host tests.
C17_RobotsFailOpen ==
    /\ [](robotsTxt \in RobotsFailures
           => \A rule_allows \in BOOLEAN :
                 /\ robots_allowed(robotsTxt, rule_allows)
                 /\ is_allowed_by_robots(get_robots_parser(robotsTxt), rule_allows))
    /\ [][ (/\ robotsTxt \in RobotsFailures
            /\ seen' # seen
            /\ ~(cur'.depth > max_depth)
            /\ same_site(cur'.url, Root))
           => cur'.fetched ]_vars

(***************************************************************************)
(* Two crawls of one site side by side.  The first is crawl_domain as it   *)
(* is; from the queue of the second, tasks whose URL it has visited are    *)
(* removed at arbitrary moments.  Both receive the same answers from the   *)
(* site: an iteration on a task that both queues hold is taken by both.    *)
(***************************************************************************)
Visited_Never(u, s) == FALSE

\* url in seen
Visited(u, s) == u \in s

\* what the site answers to one iteration: the verdict of its robots rules,
\* the response (a page or a 404), the anchors of the page (same-site ones)
Answers ==
    [rule_allows : BOOLEAN,
     r : {r \in Responses : ContainsHtml(r.ctype)},
     body : {Body({}, {})},
     hrefs : SeqsUpTo({h \in Hrefs : Lower(h.netloc) = Lower(domain.netloc)}
                        \cup {FreshHref(Len(pages) + 1)}, MaxLinks)]

\* one iteration of the loop of crawl_domain on queue q, visited set s and
\* page list p when the site answers e: what it leaves, whether it ended in
\* the break of the circuit breaker, whether it asked for robots.txt,
\* requested the page and slept
Iteration(q, s, p, e) ==
    LET url == Head(q)[1]
        depth == Head(q)[2]
        sn == s \cup {url}
        skip == [queue |-> popleft(q), seen |-> sn, pages |-> p, brk |-> FALSE,
                 robots |-> RobotsAsked(url, depth), request |-> FALSE,
                 slept |-> FALSE, gate |-> NoGate]
    IN  IF Visited(url, s)
        THEN [queue |-> popleft(q), seen |-> s, pages |-> p, brk |-> FALSE,
              robots |-> FALSE, request |-> FALSE, slept |-> FALSE,
              gate |-> NoGate]
        ELSE IF ~Gate(url, depth, robots_allowed(robotsTxt, e.rule_allows)) THEN skip
        ELSE IF fetch(e.r) = NoneResp THEN [skip EXCEPT !.request = TRUE]
        ELSE [queue |-> popleft(q) \o (IF kw_ok(e.body.low)
                                       THEN EnqueueLinks(extract_links(e.hrefs), sn, depth)
                                       ELSE <<>>),
              seen |-> sn,
              pages |-> Append(p, [url |-> url]),
              brk |-> Cardinality(sn) > max_pages * BreakerFactor,
              robots |-> TRUE, request |-> TRUE, slept |-> delay_ms > 0,
              gate |-> Gated(e.body, kw_ok(e.body.low))]

\* the loop condition of the second crawl
LoopGuardD == queueD # <<>> /\ Len(pagesD) < max_pages

\* the place in queueD of the task at place i of queue
PlaceD(i) == Cardinality({j \in 1..i : ~align[j]})

\* q without its n-th element
RemoveAt(q, n) == SubSeq(q, 1, n - 1) \o SubSeq(q, n + 1, Len(q))

\* n times FALSE
NotRemoved(n) == [i \in 1..n |-> FALSE]

DedupInit ==
    /\ domain = Url("http", "a.com", <<"/">>)
    /\ keywords = <<>>
    /\ max_pages \in 1..MaxPagesBound
    /\ max_depth \in 0..MaxDepthBound
    /\ queue = <<<<Root, 0>>>>
    /\ seen = {}
    /\ pages = <<>>
    /\ pc = "loop"
    /\ result = None
    /\ pagesFile = <<>>
    /\ pageDepth = <<>>
    /\ resp = NoneResp
    /\ cur = Task(NoneUrl, 0, FALSE)
    /\ robotsTxt = "rules"
    /\ queueD = <<<<Root, 0>>>>
    /\ seenD = {}
    /\ pagesD = <<>>
    /\ pcD = "loop"
    /\ align = <<FALSE>>
    /\ dropped = FALSE
    /\ NetIdle
    /\ RestIdle
    /\ ExtractIdle
    /\ CallIdle
    /\ UrlIdle

\* a task whose URL the second crawl has visited is removed from its queue
DropVisited ==
    /\ pcD = "loop"
    /\ \E i \in 1..Len(queue) :
          /\ ~align[i]
          /\ PlaceD(i) <= Len(queueD)
          /\ queueD[PlaceD(i)][1] \in seenD
          /\ queueD' = RemoveAt(queueD, PlaceD(i))
          /\ align' = [align EXCEPT ![i] = TRUE]
    /\ dropped' = TRUE
    /\ UNCHANGED <<seenD, pagesD, pcD>>
    /\ UNCHANGED <<crawlVars, netVars, notDedupVars>>

\* both crawls take the iteration on the task at the head of their queues
StepBoth ==
    /\ pc = "loop" /\ LoopGuard
    /\ pcD = "loop" /\ LoopGuardD
    /\ ~align[1]
    /\ \E e \in Answers :
          LET a == Iteration(queue, seen, pages, e)
              b == Iteration(queueD, seenD, pagesD, e)
          IN  /\ queue' = a.queue /\ seen' = a.seen /\ pages' = a.pages
              /\ pc' = IF a.brk THEN "write" ELSE "loop"
              /\ robotsFetches' = Counted(robotsFetches, a.robots)
              /\ pageRequests' = Counted(pageRequests, a.request)
              /\ sleptSince' = Noted(sleptSince, IF a.request THEN a.slept
                                                  ELSE sleptSince)
              /\ gate' = Noted(gate, a.gate)
              /\ UNCHANGED observed
              /\ queueD' = b.queue /\ seenD' = b.seen /\ pagesD' = b.pages
              /\ pcD' = IF b.brk THEN "done" ELSE "loop"
              /\ align' = Tail(align) \o NotRemoved(Len(a.queue) - Len(queue) + 1)
    /\ UNCHANGED dropped
    /\ UNCHANGED <<domain, keywords, max_pages, max_depth, result, pagesFile,
                   pageDepth, resp, cur, robotsTxt>>
    /\ UNCHANGED notDedupVars

\* the first crawl takes an iteration that the second does not take: on a
\* task that was removed from the second queue, or after the second crawl
\* has left its loop
StepFirst ==
    /\ pc = "loop" /\ LoopGuard
    /\ align[1] \/ pcD = "done"
    /\ \E e \in Answers :
          LET a == Iteration(queue, seen, pages, e)
          IN  /\ queue' = a.queue /\ seen' = a.seen /\ pages' = a.pages
              /\ pc' = IF a.brk THEN "write" ELSE "loop"
              /\ robotsFetches' = Counted(robotsFetches, a.robots)
              /\ pageRequests' = Counted(pageRequests, a.request)
              /\ sleptSince' = Noted(sleptSince, IF a.request THEN a.slept
                                                  ELSE sleptSince)
              /\ gate' = Noted(gate, a.gate)
              /\ UNCHANGED observed
              /\ align' = Tail(align) \o NotRemoved(Len(a.queue) - Len(queue) + 1)
    /\ UNCHANGED <<queueD, seenD, pagesD, pcD, dropped>>
    /\ UNCHANGED <<domain, keywords, max_pages, max_depth, result, pagesFile,
                   pageDepth, resp, cur, robotsTxt>>
    /\ UNCHANGED notDedupVars

\* the loop condition of the second crawl is false
ExitLoopD ==
    /\ pcD = "loop" /\ ~LoopGuardD
    /\ pcD' = "done"
    /\ UNCHANGED <<queueD, seenD, pagesD, align, dropped>>
    /\ UNCHANGED <<crawlVars, netVars, notDedupVars>>

DedupNext ==
    \/ DropVisited
    \/ StepBoth
    \/ StepFirst
    \/ ExitLoopD
    \/ ExitLoop
    \/ WriteOutput

DedupSpec == DedupInit /\ [][DedupNext]_vars

RECURSIVE Kept(_, _)
\* the tasks of q that were not removed
Kept(q, al) ==
    IF q = <<>> THEN <<>>
    ELSE (IF Head(al) THEN <<>> ELSE <<Head(q)>>) \o Kept(Tail(q), Tail(al))

\* C19: the crawl from whose queue tasks with a visited URL are removed
\* records the same pages, in the same order, and visits the same URLs as
\* the crawl that dequeues them; its queue is the other queue without the
\* removed tasks; it is never left with work when the other has finished,
\* and the returned page count and the pages file are the same.
C19_DropVisitedChangesNothing ==
    /\ pagesD = pages
    /\ seenD = seen
    /\ Len(align) = Len(queue)
    /\ queueD = Kept(queue, align)
    /\ pc # "loop" => (pcD = "done" \/ ~LoopGuardD \/ Len(pages) >= max_pages
                        \/ Cardinality(seen) > max_pages * 8)
    /\ (pcD = "done" /\ pc = "loop" /\ LoopGuard) => align[1]
    /\ (pc = "done" /\ pcD = "done")
         => /\ result.pages_scanned = Len(pagesD)
            /\ pagesFile = pagesD

\* both crawls have finished after a task was removed from the queue of the
\* second, and the first has dequeued every task of its queue
C19_Witness ==
    /\ pc = "done" /\ pcD = "done"
    /\ dropped
    /\ queue = <<>>
    /\ Len(pagesD) >= 1
    /\ Cardinality(seenD) >= 2

\* C20: once the visited set holds more than 8 x max_pages URLs no further
\* task is dequeued, whatever the iteration that crossed the threshold did.
C20_BreakerStopsCrawl ==
    [][ Cardinality(seen) > 8 * max_pages => queue' = queue ]_vars

\* C21: during one crawl robots.txt is requested at most once, however many
\* URLs reach the robots gate.
C21_RobotsFetchedOnce == robotsFetches <= 1

\* C22: with a positive delay, every page request but the first is made
\* after a sleep that followed the page request before it, also when that
\* request failed or its response was rejected.
C22_DelayBetweenRequests ==
    [][ (delay_ms > 0 /\ pageRequests > 0 /\ pageRequests' = pageRequests + 1)
        => sleptSince ]_vars

\* C23: no task of the queue has a depth above max_depth, and no task with
\* such a depth is added to the visited set.
C23_NoTaskBeyondMaxDepth ==
    /\ [](\A i \in 1..Len(queue) : queue[i][2] <= max_depth)
    /\ [][ seen' # seen => cur'.depth <= max_depth ]_vars

\* two URLs that are equal or differ only by trailing slashes
SameLogicalPage(u, v) ==
    /\ u.scheme = v.scheme
    /\ u.netloc = v.netloc
    /\ RStripSlash(u.path) = RStripSlash(v.path)

\* C24: no two recorded pages, and no two visited entries, are URLs of the
\* same logical page.
C24_LogicalPageOnce ==
    /\ \A i, j \in 1..Len(pages) :
          SameLogicalPage(pages[i].url, pages[j].url) => i = j
    /\ \A u, v \in seen : SameLogicalPage(u, v) => u = v

\* C27: when an exception ends crawl_domain after pages were collected, the
\* pages file holds the collected pages and a result is returned.
C27_FaultKeepsPages ==
    (pc = "raised" /\ pages # <<>>)
    => /\ pagesFile = pages
       /\ result # None

\* a keyword that is not blank occurs among the words of the title and text
KeywordOccurs(body) ==
    \E i \in 1..Len(keywords) :
        /\ Strip(keywords[i]) # ""
        /\ Strip(keywords[i]) \in (body.low \cup body.late)

\* C28: every page that was fetched is recorded, and the links of a
\* recorded page are expanded exactly when the keyword list is empty or a
\* trimmed keyword occurs in the title and text of the page.
C28_KeywordGate ==
    /\ [][ (seen' # seen /\ cur'.fetched /\ fetch(resp') # NoneResp)
            => Len(pages') = Len(pages) + 1 ]_vars
    /\ [][ Len(pages') = Len(pages) + 1
            => /\ gate'.recorded
               /\ gate'.expanded <=> (keywords = <<>> \/ KeywordOccurs(gate'.body)) ]_vars

\* C15: a crawl request whose max_pages is outside 1..1000 or whose
\* max_depth is outside 0..10 never gets past validation: the pages and
\* entities files keep their content, nothing is queued, marked visited or
\* fetched.
C15_InvalidRequestRejected ==
    (max_pages \notin 1..1000 \/ max_depth \notin 0..10)
    => /\ pc \in {"request", "rejected"}
       /\ pagesFile = OldPages
       /\ entFile.list = OldEntities
       /\ queue = <<>> /\ seen = {} /\ pages = <<>>
       /\ ~cur.fetched /\ resp = NoneResp

\* a request for 1001 pages at a valid depth was rejected
C15_Witness ==
    /\ pc = "rejected"
    /\ max_pages = 1001
    /\ max_depth \in 0..10
    /\ pagesFile = OldPages

(***************************************************************************)
(* extract_entities (src/extractor/nlp_pipeline.py)                        *)
(*                                                                         *)
(* Numbers between 0 and 1 are integers in thousandths; a candidate's      *)
(* _score is kept in millionths, so that the rounding to three decimals    *)
(* of _emit_entities has something to round.                               *)
(***************************************************************************)
\* the crawl state while only the extractor runs
CrawlIdle ==
    /\ domain = Url("http", "a.com", <<>>)
    /\ keywords = <<>>
    /\ max_pages = 1
    /\ max_depth = 0
    /\ queue = <<>>
    /\ seen = {}
    /\ pages = <<>>
    /\ pc = "done"
    /\ result = None
    /\ pagesFile = <<>>
    /\ pageDepth = <<>>
    /\ resp = NoneResp
    /\ cur = Task(NoneUrl, 0, FALSE)
    /\ robotsTxt = "rules"
    /\ NetIdle

RECURSIVE keywords_list(_)
\* _keywords_list: strip, lower, drop the blank ones
keywords_list(ks) ==
    IF ks = <<>> THEN <<>>
    ELSE (IF Strip(Head(ks)) # "" THEN <<Lower(Strip(Head(ks)))>> ELSE <<>>)
         \o keywords_list(Tail(ks))

\* the keyword arguments of the model
KeywordArgs == {<<>>, <<"Dean">>, <<" ">>}

\* What the model knows of a context window: snippet richness, whether an
\* organisation was found in it, the cosine of its embedding with that of the
\* keywords for the scoring text and for the floor text, and whether a
\* keyword occurs in it as a token.
Snippet(i, r, o, cs, cf, t) ==
    [id |-> i, richness |-> r, has_org |-> o, cosScore |-> cs, cosFloor |-> cf,
     kwTok |-> t]

Snippets ==
    { Snippet("s1", 1000, 1000, 1000, 1000, TRUE),
      Snippet("s2", 400, 0, -800, -800, FALSE),
      Snippet("s3", 1000, 1000, 200, 0, TRUE) }

PageUrls == {"http://a.com/team", "http://a.com/x"}

\* a candidate built by _extract_candidates_from_page; the title "" is a
\* title_guess of None
Candidate(n, t, url, sn) ==
    [name |-> n, title |-> t, context_url |-> url, snippet |-> sn,
     has_title |-> IF t # "" THEN 1000 ELSE 0]

SnippetOf(i) == CHOOSE sn \in Snippets : sn.id = i

\* the candidates of the model on a page at url: two spellings of one
\* person and title found in different contexts, and two untitled mentions
Candidates(url) ==
    { Candidate("Ann", "CTO", url, SnippetOf("s1")),
      Candidate("ANN", "cto", url, SnippetOf("s3")),
      Candidate("Ann", "", url, SnippetOf("s2")),
      Candidate("Ann", "", url, SnippetOf("s1")) }

Min(a, b) == IF a < b THEN a ELSE b
Max(a, b) == IF a > b THEN a ELSE b

\* _semantic_score, of a text with cosine cos whose tokens hold a keyword or not
semantic_score(cos, kwTok, ks) ==
    IF ks = <<>> THEN 0
    ELSE IF st_model THEN Max(0, Min(1000, (cos + 1000) \div 2))
    ELSE IF kwTok THEN (1000 * 1) \div Max(1, Len(ks)) ELSE 0

\* _page_title_boost
page_title_boost(url) == IF url = "http://a.com/team" THEN 150 ELSE 0

score_candidate_NoClamp(c, ks) ==
    LET sem == semantic_score(c.snippet.cosScore, c.snippet.kwTok, ks)
        rest == c.snippet.richness + page_title_boost(c.context_url)
    IN  IF ks # <<>>
        THEN 600 * sem + 200 * c.has_title + 100 * c.snippet.has_org + 100 * rest
        ELSE 450 * c.has_title + 200 * c.snippet.has_org + 350 * rest

\* _score_candidate, in millionths
score_candidate(c, ks) ==
    LET sem == semantic_score(c.snippet.cosScore, c.snippet.kwTok, ks)
        rest == c.snippet.richness + page_title_boost(c.context_url)
        score == IF ks # <<>>
                 THEN 600 * sem + 200 * c.has_title + 100 * c.snippet.has_org
                      + 100 * rest
                 ELSE 450 * c.has_title + 200 * c.snippet.has_org + 350 * rest
    IN  Max(0, Min(1000000, score))

SemanticFloor == 150

\* the candidate is dropped by the semantic floor
BelowFloor(c, ks) ==
    /\ ks # <<>>
    /\ semantic_score(c.snippet.cosFloor, c.snippet.kwTok, ks) < SemanticFloor

Key_CaseSensitive(c) == <<c.name, c.title, c.context_url>>

\* the de-dup key of a candidate
Key(c) == <<Lower(c.name), Lower(c.title), c.context_url>>

Better_Always(new, old) == TRUE

\* the test that lets a candidate take an occupied key
Better(new, old) == new > old

\* best[key] = c when the key is free or c scores higher; a replaced key
\* keeps its place in the insertion order
Put(b, c) ==
    IF \E i \in 1..Len(b) : Key(b[i]) = Key(c)
    THEN LET i == CHOOSE i \in 1..Len(b) : Key(b[i]) = Key(c)
         IN  IF Better(c.score, b[i].score) THEN [b EXCEPT ![i] = c] ELSE b
    ELSE Append(b, c)

\* the candidate with its _score
Scored(c, ks) ==
    [name |-> c.name, title |-> c.title, context_url |-> c.context_url,
     snippet |-> c.snippet.id, score |-> score_candidate(c, ks)]

RECURSIVE MergePage(_, _, _)
\* the loop over the candidates of one page
MergePage(b, cands, ks) ==
    IF cands = <<>> THEN b
    ELSE MergePage(IF BelowFloor(Head(cands), ks) THEN b
                   ELSE Put(b, Scored(Head(cands), ks)),
                   Tail(cands), ks)

RECURSIVE InsertDesc(_, _)
\* c placed behind every element that scores at least as much
InsertDesc(sorted, c) ==
    IF sorted = <<>> THEN <<c>>
    ELSE IF Head(sorted).score >= c.score
         THEN <<Head(sorted)>> \o InsertDesc(Tail(sorted), c)
         ELSE <<c>> \o sorted

Unsorted(b) == b

RECURSIVE SortedDesc(_)
\* sorted(best.values(), key=_score, reverse=True): stable
SortedDesc(b) ==
    IF b = <<>> THEN <<>>
    ELSE InsertDesc(SortedDesc(SubSeq(b, 1, Len(b) - 1)), b[Len(b)])

\* round(x, 3) of a value in millionths, in thousandths
Round3(x) == (x + 500) \div 1000

\* the entity emitted for a retained candidate
Entity(c) ==
    [name |-> c.name,
     type |-> IF c.title # "" THEN c.title ELSE "Person",
     url |-> c.context_url,
     snippet |-> c.snippet,
     score |-> Round3(c.score)]

\* entities_list of _emit_entities
Materialize(b) ==
    LET srt == SortedDesc(b)
    IN  [i \in 1..Len(srt) |-> Entity(srt[i])]

\* file contents: a file without text, a JSON array, and the JSON object
\* that _do_extract persists, whose "entities" member is the list
EmptyFile == [kind |-> "empty", list |-> <<>>]
ArrayFile(l) == [kind |-> "array", list |-> l]
ObjectFile(l) == [kind |-> "object", list |-> l]

\* the members of the record returned by extract_entities
ResultKeys == {"domain", "pages_scanned", "entities", "entities_count", "cancelled"}

(***************************************************************************)
(* The results reader (src/api/main.py)                                    *)
(***************************************************************************)
\* Python values read from a JSON file; entities is the value under the key
\* "entities" of a dict
PyNone == [type |-> "None", items |-> <<>>, keys |-> {}, entities |-> <<>>]
PyList(l) == [type |-> "list", items |-> l, keys |-> {}, entities |-> <<>>]
PyDict(ks, l) == [type |-> "dict", items |-> <<>>, keys |-> ks, entities |-> l]

\* _read_json: None for a missing file, [] for a file without text or with
\* text that is not JSON
read_json(f) ==
    CASE f.kind = "missing" -> PyNone
      [] f.kind = "empty" -> PyList(<<>>)
      [] f.kind = "array" -> PyList(f.list)
      [] f.kind = "object" -> PyDict(ResultKeys, f.list)
      [] OTHER -> PyList(<<>>)

do_results_ListOnly(f) ==
    LET data == read_json(f)
    IN  IF data.type = "None" THEN <<>>
        ELSE IF data.type = "list" THEN data.items
        ELSE <<>>

\* _do_results: the list a poll returns
do_results(f) ==
    LET data == read_json(f)
    IN  IF data.type = "None" THEN <<>>
        ELSE IF data.type = "dict" /\ "entities" \in data.keys THEN data.entities
        ELSE IF data.type = "list" THEN data.items
        ELSE <<>>

\* scores of the candidates of a page that pass the floor, folded into top
RECURSIVE TopAfter(_, _, _)
TopAfter(t, cands, ks) ==
    IF cands = <<>> THEN t
    ELSE LET c == Head(cands)
             k == Key(c)
             sc == score_candidate(c, ks)
             old == {p \in t : p[1] = k}
             nt == IF BelowFloor(c, ks) THEN t
                   ELSE IF old = {} THEN t \cup {<<k, sc>>}
                   ELSE (t \ old) \cup {<<k, Max(sc, (CHOOSE p \in old : TRUE)[2])>>}
         IN  TopAfter(nt, Tail(cands), ks)

RECURSIVE CollisionsAfter(_, _, _, _)
CollisionsAfter(col, t, cands, ks) ==
    IF cands = <<>> THEN col
    ELSE LET c == Head(cands)
             k == Key(c)
             sc == score_candidate(c, ks)
             old == {p \in t : p[1] = k}
             m == (CHOOSE p \in old : TRUE)[2]
             nc == IF BelowFloor(c, ks) \/ old = {} THEN col
                   ELSE col \cup {IF sc < m THEN "lower"
                                  ELSE IF sc = m THEN "equal" ELSE "higher"}
         IN  CollisionsAfter(nc, TopAfter(t, <<c>>, ks), Tail(cands), ks)

ExtractInit ==
    /\ CrawlIdle
    /\ RestIdle
    /\ UrlIdle
    /\ DedupIdle
    /\ caller \in {"direct", "api"}
    /\ pagesPresent \in BOOLEAN
    /\ raised = "none"
    /\ kw \in {keywords_list(k) : k \in KeywordArgs}
    /\ st_model \in (IF kw = <<>> THEN {FALSE} ELSE BOOLEAN)
    /\ cancel_path \in (IF caller = "api" THEN {FALSE} ELSE BOOLEAN)
    /\ cancelMarker = FALSE
    /\ best = <<>>
    /\ pages_scanned = 0
    /\ lineNo = 0
    /\ epc = "start"
    /\ entities = <<>>
    /\ entFile = EmptyFile
    /\ ret = None
    /\ top = {}
    /\ collided = {}
    /\ lastPoll = -1

\* _do_extract finds no pages file and raises HTTPException(400) without
\* calling extract_entities
DoExtractRefuses ==
    /\ epc = "start"
    /\ caller = "api" /\ ~pagesPresent
    /\ epc' = "raised"
    /\ raised' = "HTTPException"
    /\ UNCHANGED notExtractVars
    /\ UNCHANGED <<caller, pagesPresent>>
    /\ UNCHANGED <<kw, st_model, cancel_path, cancelMarker, best, pages_scanned,
                   lineNo, entities, entFile, ret, top, collided, lastPoll>>

\* open(entities_path, "w"); json.dump([], f); then open(pages_path), which
\* raises FileNotFoundError when there is no such file
PrepareOutput ==
    /\ epc = "start"
    /\ caller = "api" => pagesPresent
    /\ entFile' = ArrayFile(<<>>)
    /\ IF pagesPresent
       THEN /\ epc' = "loop"
            /\ raised' = raised
       ELSE /\ epc' = "raised"
            /\ raised' = "FileNotFoundError"
    /\ UNCHANGED notExtractVars
    /\ UNCHANGED <<caller, pagesPresent>>
    /\ UNCHANGED <<kw, st_model, cancel_path, cancelMarker, best, pages_scanned,
                   lineNo, entities, ret, top, collided, lastPoll>>

NotCancelled_Never == TRUE

\* the cancel test at the head of the loop body lets the line through
NotCancelled == ~(cancel_path /\ cancelMarker)

\* a blank line or a line that is not JSON: continue
SkipLine ==
    /\ epc = "loop" /\ lineNo < MaxLines /\ NotCancelled
    /\ lineNo' = lineNo + 1
    /\ UNCHANGED notExtractVars
    /\ UNCHANGED callVars
    /\ UNCHANGED <<kw, st_model, cancel_path, cancelMarker, best, pages_scanned,
                   epc, entities, entFile, ret, top, collided, lastPoll>>

\* the exceptions that a line of the pages file can raise out of the loop:
\* the file iterator raises UnicodeDecodeError on bytes that are not UTF-8,
\* p.get raises AttributeError on a line that is JSON but not an object
LineErrors == {"UnicodeDecodeError", "AttributeError"}

\* a line raises an exception that nothing in extract_entities catches.  The
\* iterator decodes before the cancel test; json.loads comes after it.
AbortLine ==
    /\ epc = "loop" /\ lineNo < MaxLines
    /\ \E e \in LineErrors :
          /\ e = "AttributeError" => NotCancelled
          /\ raised' = e
    /\ epc' = "raised"
    /\ UNCHANGED notExtractVars
    /\ UNCHANGED <<caller, pagesPresent>>
    /\ UNCHANGED <<kw, st_model, cancel_path, cancelMarker, best, pages_scanned,
                   lineNo, entities, entFile, ret, top, collided, lastPoll>>

\* a page without text: counted, nothing emitted
EmptyTextPage ==
    /\ epc = "loop" /\ lineNo < MaxLines /\ NotCancelled
    /\ lineNo' = lineNo + 1
    /\ pages_scanned' = pages_scanned + 1
    /\ UNCHANGED notExtractVars
    /\ UNCHANGED callVars
    /\ UNCHANGED <<kw, st_model, cancel_path, cancelMarker, best,
                   epc, entities, entFile, ret, top, collided, lastPoll>>

\* a page with text: merge its candidates, then _emit_entities builds the
\* list and opens entities_path for writing, which truncates it
ProcessPage ==
    /\ epc = "loop" /\ lineNo < MaxLines /\ NotCancelled
    /\ \E url \in PageUrls :
         \E cands \in SeqsUpTo(Candidates(url), MaxCands) :
            /\ best' = MergePage(best, cands, kw)
            /\ top' = TopAfter(top, cands, kw)
            /\ collided' = CollisionsAfter(collided, top, cands, kw)
    /\ lineNo' = lineNo + 1
    /\ pages_scanned' = pages_scanned + 1
    /\ entities' = Materialize(best')
    /\ entFile' = EmptyFile
    /\ epc' = "dump_page"
    /\ UNCHANGED notExtractVars
    /\ UNCHANGED callVars
    /\ UNCHANGED <<kw, st_model, cancel_path, cancelMarker, ret, lastPoll>>

\* the pages file is exhausted, or the cancel marker is found: the final
\* _emit_entities builds the list and opens entities_path for writing
LeaveLoop ==
    /\ epc = "loop"
    /\ entities' = Materialize(best)
    /\ entFile' = EmptyFile
    /\ epc' = "dump_final"
    /\ UNCHANGED notExtractVars
    /\ UNCHANGED callVars
    /\ UNCHANGED <<kw, st_model, cancel_path, cancelMarker, best, pages_scanned,
                   lineNo, ret, top, collided, lastPoll>>

\* json.dump(entities_list, f) and close; after the final one, return, to
\* _do_extract if it made the call
Dump ==
    /\ epc \in {"dump_page", "dump_final"}
    /\ entFile' = ArrayFile(entities)
    /\ IF epc = "dump_page"
       THEN /\ epc' = "loop"
            /\ ret' = ret
       ELSE /\ epc' = IF caller = "api" THEN "persist" ELSE "done"
            /\ ret' = [pages_scanned |-> pages_scanned,
                       entities |-> entities,
                       entities_count |-> Len(entities),
                       cancelled |-> IF cancel_path /\ cancelMarker THEN 1 ELSE 0]
    /\ UNCHANGED notExtractVars
    /\ UNCHANGED callVars
    /\ UNCHANGED <<kw, st_model, cancel_path, cancelMarker, best, pages_scanned,
                   lineNo, entities, top, collided, lastPoll>>

\* _do_extract writes the returned record over the entities file, by
\* _write_json: a temporary file renamed into place
Persist ==
    /\ epc = "persist"
    /\ entFile' = ObjectFile(ret.entities)
    /\ epc' = "done"
    /\ UNCHANGED notExtractVars
    /\ UNCHANGED callVars
    /\ UNCHANGED <<kw, st_model, cancel_path, cancelMarker, best, pages_scanned,
                   lineNo, entities, ret, top, collided, lastPoll>>

\* another process creates the cancel marker
TouchCancel ==
    /\ cancel_path /\ ~cancelMarker
    /\ epc \notin {"done", "raised"}
    /\ cancelMarker' = TRUE
    /\ UNCHANGED notExtractVars
    /\ UNCHANGED callVars
    /\ UNCHANGED <<kw, st_model, cancel_path, best, pages_scanned, lineNo, epc,
                   entities, entFile, ret, top, collided, lastPoll>>

\* a client polls the results while extract_entities runs
Poll ==
    /\ epc \notin {"start", "done", "raised"}
    /\ lastPoll' = Len(do_results(entFile))
    /\ UNCHANGED notExtractVars
    /\ UNCHANGED callVars
    /\ UNCHANGED <<kw, st_model, cancel_path, cancelMarker, best, pages_scanned,
                   lineNo, epc, entities, entFile, ret, top, collided>>

ExtractNext ==
    \/ DoExtractRefuses
    \/ PrepareOutput
    \/ SkipLine
    \/ AbortLine
    \/ EmptyTextPage
    \/ ProcessPage
    \/ LeaveLoop
    \/ Dump
    \/ Persist
    \/ TouchCancel

ExtractSpec == ExtractInit /\ [][ExtractNext]_vars

\* one extraction without keywords, called as _do_extract calls it (without
\* a cancel path), with a client polling the results
PollInit == ExtractInit /\ kw = <<>> /\ cancel_path = FALSE

PollNext ==
    \/ DoExtractRefuses
    \/ PrepareOutput
    \/ SkipLine
    \/ AbortLine
    \/ EmptyTextPage
    \/ ProcessPage
    \/ LeaveLoop
    \/ Dump
    \/ Persist
    \/ Poll

PollSpec == PollInit /\ [][PollNext]_vars

(***************************************************************************)
(* Claims about extract_entities and the results reader                    *)
(***************************************************************************)
\* the de-dup key of an emitted entity; its title is its type field
EntKey(e) == <<Lower(e.name), Lower(e.type), e.url>>

NoTwoShareKey(l) ==
    \A i, j \in 1..Len(l) : i < j => EntKey(l[i]) # EntKey(l[j])

\* C6: in every list materialized by extract_entities, held in memory or
\* written to the entities file, no two entities share the key
\* (name.lower(), title.lower(), url).
C6_UniqueKeys ==
    /\ NoTwoShareKey(entities)
    /\ NoTwoShareKey(entFile.list)
    /\ epc = "done" => NoTwoShareKey(ret.entities)

\* a candidate met an occupied key, and the list written to the file holds
\* two entities, one of them the upper-case spelling
C6_Witness ==
    /\ collided # {}
    /\ Len(entities) >= 2
    /\ entFile = ArrayFile(entities)
    /\ \E i \in 1..Len(entities) : entities[i].name = "ANN"

ScoresInRange(l) == \A i \in 1..Len(l) : 0 <= l[i].score /\ l[i].score <= 1000

\* C7: every emitted entity has 0 <= score <= 1.
C7_ScoreInUnitInterval ==
    /\ ScoresInRange(entities)
    /\ ScoresInRange(entFile.list)
    /\ epc = "done" => ScoresInRange(ret.entities)

\* with keywords and the embedding model, a titled candidate on a team page
\* is emitted with score 1 next to an entity that scores less
C7_Witness ==
    /\ kw # <<>> /\ st_model
    /\ \E i, j \in 1..Len(entities) :
          /\ entities[i].score = 1000
          /\ entities[i].url = "http://a.com/team"
          /\ entities[i].type # "Person"
          /\ entities[j].score < 1000

\* C8: for every key, the retained candidate has the highest score among the
\* candidates of that key that passed the floor so far.
C8_KeepsHighest ==
    /\ \A p \in top : \E i \in 1..Len(best) :
          Key(best[i]) = p[1] /\ best[i].score = p[2]
    /\ \A i \in 1..Len(best) : <<Key(best[i]), best[i].score>> \in top

\* a candidate that scored lower than the retained one of its key came later
C8_Witness ==
    /\ "lower" \in collided
    /\ "higher" \in collided
    /\ best # <<>>

NonIncreasing(l) ==
    \A i, j \in 1..Len(l) : i < j => l[i].score >= l[j].score

\* C9: every emitted list is ordered by score, non-increasing.
C9_SortedByScore ==
    /\ NonIncreasing(entities)
    /\ NonIncreasing(entFile.list)
    /\ epc = "done" => NonIncreasing(ret.entities)

\* the store holds a lower-scored candidate before a higher-scored one, and
\* the emitted list has them the other way round
C9_Witness ==
    /\ Len(best) >= 2
    /\ best[1].score < best[2].score
    /\ Len(entities) = Len(best)
    /\ entities[1].score > entities[Len(entities)].score
    /\ entFile = ArrayFile(entities)

\* C10: the number of entities a polling client reads never decreases from
\* one poll to the next during a run (so it never reads an empty list after
\* a non-empty one).
C10_PollsNeverShrink == [][lastPoll' >= lastPoll]_vars

\* the elements of a list
Range(l) == {l[i] : i \in 1..Len(l)}

C12_MissingInputEmptyResult ==
    ~pagesPresent => raised = "none"

\* C13: no line of the pages file makes extract_entities abort: from the
\* loop the run goes on, it never ends in an exception.
C13_CorruptLineSkipped ==
    [][ epc = "loop" => epc' # "raised" ]_vars

\* C14: the results reader returns the same list for the object whose
\* "entities" member is L as for the bare array L, namely L; and once
\* _do_extract has persisted its record a poll returns the returned list.
C14_ObjectReadAsArray ==
    /\ do_results(ObjectFile(entities)) = do_results(ArrayFile(entities))
    /\ do_results(ObjectFile(entities)) = entities
    /\ (epc = "done" /\ caller = "api")
         => /\ entFile.kind = "object"
            /\ do_results(entFile) = ret.entities

\* _do_extract has replaced the array written by extract_entities with the
\* object, and a poll reads two entities from it
C14_Witness ==
    /\ epc = "done" /\ caller = "api"
    /\ entFile.kind = "object"
    /\ Len(do_results(entFile)) >= 2
    /\ do_results(entFile) = do_results(ArrayFile(entFile.list))

(***************************************************************************)
(* The merge loop of extract_entities on the same candidates in two orders *)
(***************************************************************************)
\* the candidates of all pages, in the order in which the loop over the
\* lines and the loop over a page's candidates meet them
MergeInputs ==
    SeqsUpTo(UNION {Candidates(url) : url \in PageUrls}, MaxCands)

\* the bijections of 1..n
Bijections(n) ==
    {f \in [1..n -> 1..n] : \A i, j \in 1..n : f[i] = f[j] => i = j}

\* the sequences that hold the elements of l in another order
Reorderings(l) ==
    {[i \in 1..Len(l) |-> l[f[i]]] : f \in Bijections(Len(l))}

\* best after the loop met the candidates l, then the final _emit_entities
extract_entities_list(l) == Materialize(MergePage(<<>>, l, kw))

MergeInit ==
    /\ CrawlIdle
    /\ CallIdle
    /\ UrlIdle
    /\ DedupIdle
    /\ kw \in {keywords_list(k) : k \in KeywordArgs}
    /\ st_model \in (IF kw = <<>> THEN {FALSE} ELSE BOOLEAN)
    /\ cancel_path = FALSE
    /\ cancelMarker = FALSE
    /\ best = <<>>
    /\ pages_scanned = 0
    /\ lineNo = 0
    /\ epc = "start"
    /\ entities = <<>>
    /\ entFile = EmptyFile
    /\ ret = None
    /\ top = {}
    /\ collided = {}
    /\ lastPoll = -1
    /\ OverlapIdle
    /\ EnhanceIdle
    /\ CanonIdle
    /\ cands_in \in MergeInputs
    /\ cands_perm \in Reorderings(cands_in)
    /\ merged_in = <<>>
    /\ merged_perm = <<>>
    /\ mpc = "start"

\* the loop runs over the candidates in the first order
MergeInOrder ==
    /\ mpc = "start"
    /\ merged_in' = extract_entities_list(cands_in)
    /\ mpc' = "first"
    /\ UNCHANGED <<cands_in, cands_perm, merged_perm>>
    /\ UNCHANGED <<crawlVars, extractVars, callVars, urlVars, dedupVars, netVars,
                   overlapVars, enhanceVars, canonVars>>

\* the loop runs over the candidates in the other order
MergePermuted ==
    /\ mpc = "first"
    /\ merged_perm' = extract_entities_list(cands_perm)
    /\ mpc' = "both"
    /\ UNCHANGED <<cands_in, cands_perm, merged_in>>
    /\ UNCHANGED <<crawlVars, extractVars, callVars, urlVars, dedupVars, netVars,
                   overlapVars, enhanceVars, canonVars>>

MergeNext ==
    \/ MergeInOrder
    \/ MergePermuted

MergeSpec == MergeInit /\ [][MergeNext]_vars

\* C25: the entities of the final list do not depend on the order in which
\* the merge loop meets the candidates: for every key the same surviving
\* candidate, with the same fields and the same score.
C25_MergeOrderIndependent ==
    mpc = "both" => Range(merged_perm) = Range(merged_in)

(***************************************************************************)
(* Two requests served at the same time (src/api/main.py).  The routes are *)
(* plain functions, which the server runs in worker threads, and the       *)
(* background task of /api/crawl-and-extract runs in such a thread as      *)
(* well; every step below is one file operation of one run.                *)
(***************************************************************************)
Runs == {1, 2}

\* the domain of each request
RunDomain(r) == IF r = 1 THEN Url("http", "a.com", <<>>) ELSE Url("http", "b.com", <<>>)

\* what crawl_domain can collect for a run: its root, or its root and a page
RunCrawls(r) ==
    { <<[url |-> RunDomain(r)]>>,
      <<[url |-> RunDomain(r)],
        [url |-> Url("http", RunDomain(r).netloc, <<"/", "p1">>)]>> }

\* the entities extract_entities finds on the pages it read: one person per
\* page, with the URL of the page
EntitiesOf(lines) ==
    [i \in 1..Len(lines) |->
        [name |-> "Ann", type |-> "Person", url |-> lines[i].url,
         snippet |-> "s1", score |-> 700]]

OverlapInit ==
    /\ domain = Url("http", "a.com", <<>>)
    /\ keywords = <<>>
    /\ max_pages = 2
    /\ max_depth = 1
    /\ queue = <<>>
    /\ seen = {}
    /\ pages = <<>>
    /\ pc = "done"
    /\ result = None
    /\ pagesFile \in {<<>>, OldPages}
    /\ pageDepth = <<>>
    /\ resp = NoneResp
    /\ cur = Task(NoneUrl, 0, FALSE)
    /\ robotsTxt = "rules"
    /\ NetIdle
    /\ kw = <<>>
    /\ st_model = FALSE
    /\ cancel_path = FALSE
    /\ cancelMarker = FALSE
    /\ best = <<>>
    /\ pages_scanned = 0
    /\ lineNo = 0
    /\ epc = "start"
    /\ entities = <<>>
    /\ entFile \in {EmptyFile, ArrayFile(OldEntities)}
    /\ ret = None
    /\ top = {}
    /\ collided = {}
    /\ lastPoll = -1
    /\ CallIdle
    /\ UrlIdle
    /\ DedupIdle
    /\ MergeIdle
    /\ EnhanceIdle
    /\ CanonIdle
    /\ runKind \in [Runs -> {"crawl", "crawl-and-extract"}]
    /\ runPc = [r \in Runs |-> "handler"]
    /\ runPages = [r \in Runs |-> <<>>]
    /\ runRead = [r \in Runs |-> <<>>]

\* what a step of a run leaves alone
notOverlapVars ==
    <<domain, keywords, max_pages, max_depth, queue, seen, pages, pc, result,
      pageDepth, resp, cur, robotsTxt, netVars,
      kw, st_model, cancel_path, cancelMarker, best, pages_scanned, lineNo,
      epc, entities, ret, top, collided, lastPoll,
      callVars, urlVars, dedupVars, mergeVars, enhanceVars, canonVars>>

\* for path in [PAGES_PATH, ENTITIES_PATH]: path.write_text("")
ClearFiles ==
    /\ pagesFile' = <<>>
    /\ entFile' = EmptyFile

\* api_crawl_and_extract clears the files and adds the background task;
\* api_crawl calls _do_crawl
EnterHandler(r) ==
    /\ runPc[r] = "handler"
    /\ IF runKind[r] = "crawl-and-extract"
       THEN /\ ClearFiles
            /\ runPc' = [runPc EXCEPT ![r] = "task"]
       ELSE /\ UNCHANGED <<pagesFile, entFile>>
            /\ runPc' = [runPc EXCEPT ![r] = "do_crawl"]
    /\ UNCHANGED <<runKind, runPages, runRead>>
    /\ UNCHANGED notOverlapVars

\* _do_crawl_and_extract clears the files before it calls _do_crawl
EnterTask(r) ==
    /\ runPc[r] = "task"
    /\ ClearFiles
    /\ runPc' = [runPc EXCEPT ![r] = "do_crawl"]
    /\ UNCHANGED <<runKind, runPages, runRead>>
    /\ UNCHANGED notOverlapVars

\* _do_crawl clears the files and calls crawl_domain, which collects pages
EnterCrawl(r) ==
    /\ runPc[r] = "do_crawl"
    /\ ClearFiles
    /\ \E p \in RunCrawls(r) : runPages' = [runPages EXCEPT ![r] = p]
    /\ runPc' = [runPc EXCEPT ![r] = "crawled"]
    /\ UNCHANGED <<runKind, runRead>>
    /\ UNCHANGED notOverlapVars

\* crawl_domain writes its pages to out_path and returns
WritePages(r) ==
    /\ runPc[r] = "crawled"
    /\ pagesFile' = runPages[r]
    /\ runPc' = [runPc EXCEPT ![r] = IF runKind[r] = "crawl" THEN "done"
                                      ELSE "extract"]
    /\ UNCHANGED entFile
    /\ UNCHANGED <<runKind, runPages, runRead>>
    /\ UNCHANGED notOverlapVars

\* _do_extract finds PAGES_PATH; extract_entities writes [] to the entities
\* file and reads the lines of the pages file
ReadPages(r) ==
    /\ runPc[r] = "extract"
    /\ entFile' = ArrayFile(<<>>)
    /\ runRead' = [runRead EXCEPT ![r] = pagesFile]
    /\ runPc' = [runPc EXCEPT ![r] = "emit"]
    /\ UNCHANGED pagesFile
    /\ UNCHANGED <<runKind, runPages>>
    /\ UNCHANGED notOverlapVars

\* the final _emit_entities of extract_entities
EmitEntities(r) ==
    /\ runPc[r] = "emit"
    /\ entFile' = ArrayFile(EntitiesOf(runRead[r]))
    /\ runPc' = [runPc EXCEPT ![r] = "persist"]
    /\ UNCHANGED pagesFile
    /\ UNCHANGED <<runKind, runPages, runRead>>
    /\ UNCHANGED notOverlapVars

\* _do_extract, then _do_crawl_and_extract: _write_json(ENTITIES_PATH, out)
PersistEntities(r) ==
    /\ runPc[r] \in {"persist", "persist again"}
    /\ entFile' = ObjectFile(EntitiesOf(runRead[r]))
    /\ runPc' = [runPc EXCEPT ![r] = IF runPc[r] = "persist" THEN "persist again"
                                      ELSE "done"]
    /\ UNCHANGED pagesFile
    /\ UNCHANGED <<runKind, runPages, runRead>>
    /\ UNCHANGED notOverlapVars

OverlapNext ==
    \E r \in Runs :
        \/ EnterHandler(r)
        \/ EnterTask(r)
        \/ EnterCrawl(r)
        \/ WritePages(r)
        \/ ReadPages(r)
        \/ EmitEntities(r)
        \/ PersistEntities(r)

OverlapSpec == OverlapInit /\ [][OverlapNext]_vars

\* C26: between the moment a run has written its pages and the moment it has
\* read them the pages file is not changed, and the entities file a run
\* leaves when it ends holds the entities of the pages of its own crawl.
C26_RunsDoNotInterfere ==
    /\ [][ \A r \in Runs :
             (runPc[r] = "extract" /\ runPc'[r] = "extract")
             => pagesFile' = pagesFile ]_vars
    /\ [][ \A r \in Runs :
             (runPc[r] = "persist again" /\ runPc'[r] = "done")
             => entFile'.list = EntitiesOf(runPages[r]) ]_vars

(***************************************************************************)
(* enhance_entities (src/extractor/ai_enhance.py), called with no keywords *)
(* and no page texts.  Scores and similarities are in thousandths.         *)
(***************************************************************************)
MaxRaw == 3            \* raw candidates of a call

\* a raw candidate: its name, URL and score, and the similarity that SBERT
\* finds between its name and its snippet
RawItems ==
    [name : {"Ann", "ANN", "Bob"}, url : {"http://a.com/team"},
     score : {300, 900}, sim : {0, 1000}]

\* final_score = max(base, 0.7 * sim + kw_bonus), kw_bonus = 0 without keywords
final_score(e) == Max(e.score, (700 * e.sim) \div 1000)

\* the loop that builds enriched
Enrich(r) ==
    [i \in 1..Len(r) |->
        [name |-> r[i].name, url |-> r[i].url, score |-> final_score(r[i])]]

\* _name_distance is 0 for two names of the model: token_sort_ratio compares
\* the strings as they are, the fallback compares their lowered tokens
NameDistanceZero(a, b) ==
    IF HAVE_RF THEN a = b ELSE Lower(a) = Lower(b)

RECURSIVE Ascending(_)
\* the numbers of S in increasing order
Ascending(S) ==
    IF S = {} THEN <<>>
    ELSE LET m == CHOOSE x \in S : \A y \in S : x <= y
         IN  <<m>> \o Ascending(S \ {m})

\* cluster_by_name: every index alone without sklearn or below 3 entities;
\* otherwise the clusters of the average-linkage clustering at distance 0.30,
\* which for names at distance 0 or above 0.30 are the classes of names at
\* distance 0, listed by their first index
cluster_by_name(ents) ==
    LET n == Len(ents)
        same(i, j) == NameDistanceZero(ents[i].name, ents[j].name)
        firsts == {i \in 1..n : \A j \in 1..(i - 1) : ~same(i, j)}
        order == Ascending(firsts)
    IN  IF n = 0 THEN <<>>
        ELSE IF ~HAVE_SK \/ n < 3 THEN [i \in 1..n |-> <<i>>]
        ELSE [k \in 1..Len(order) |->
                Ascending({i \in 1..n : same(i, order[k])})]

\* max(group, key=score): the first of the members with the highest score
BestOfGroup(group, ents) ==
    LET highest == {i \in Range(group) :
                   \A j \in Range(group) : ents[i].score >= ents[j].score}
    IN  ents[CHOOSE i \in highest : \A j \in highest : i <= j]

\* selected: the best of every cluster, then the entities of no cluster
Selected(ents) ==
    LET clusters == cluster_by_name(ents)
        clustered == UNION {Range(clusters[k]) : k \in 1..Len(clusters)}
        others == Ascending((1..Len(ents)) \ clustered)
    IN  [k \in 1..Len(clusters) |-> BestOfGroup(clusters[k], ents)]
        \o [k \in 1..Len(others) |-> ents[others[k]]]

\* the key of the final pass
UniqueKey(r) == <<Lower(r.name), Lower(r.url)>>

RECURSIVE UniqueByKey(_, _)
\* the final pass: an entity whose key was seen is dropped
UniqueByKey(sel, keys) ==
    IF sel = <<>> THEN <<>>
    ELSE IF UniqueKey(Head(sel)) \in keys THEN UniqueByKey(Tail(sel), keys)
    ELSE <<Head(sel)>> \o UniqueByKey(Tail(sel), keys \cup {UniqueKey(Head(sel))})

EnhanceInit ==
    /\ CrawlIdle
    /\ ExtractIdle
    /\ CallIdle
    /\ UrlIdle
    /\ DedupIdle
    /\ MergeIdle
    /\ OverlapIdle
    /\ CanonIdle
    /\ raw \in SeqsUpTo(RawItems, MaxRaw)
    /\ HAVE_SK \in BOOLEAN
    /\ HAVE_RF \in BOOLEAN
    /\ enriched = <<>>
    /\ out = <<>>
    /\ enhpc = "start"

\* enhance_entities(pages, raw, [])
Enhance ==
    /\ enhpc = "start"
    /\ enriched' = Enrich(raw)
    /\ out' = UniqueByKey(Selected(Enrich(raw)), {})
    /\ enhpc' = "done"
    /\ UNCHANGED <<raw, HAVE_SK, HAVE_RF>>
    /\ UNCHANGED <<crawlVars, extractVars, callVars, urlVars, dedupVars, netVars,
                   mergeVars, overlapVars, canonVars>>

EnhanceNext == Enhance

EnhanceSpec == EnhanceInit /\ [][EnhanceNext]_vars

\* two candidates that enhance_entities merges: they are in one cluster, or
\* they have the same key in the final pass
Merged(i, j) ==
    \/ UniqueKey(enriched[i]) = UniqueKey(enriched[j])
    \/ \E k \in 1..Len(cluster_by_name(enriched)) :
          {i, j} \subseteq Range(cluster_by_name(enriched)[k])

\* C29: of the candidates merged with one another exactly one is returned,
\* and none of them has a higher score than it.
C29_KeepsHighestOfGroup ==
    enhpc = "done"
    => \A i \in 1..Len(enriched) :
          \E k \in 1..Len(out) :
              /\ \E j \in 1..Len(enriched) :
                    /\ out[k] = enriched[j]
                    /\ Merged(i, j)
              /\ out[k].score >= enriched[i].score

(***************************************************************************)
(* crawl of src/crawler/crawler.py: no page limit, one robots parser for   *)
(* the crawl, URLs normalized by normalize_url of crawler/utils.py, and    *)
(* the URL of a page taken from its canonical link when it has one.        *)
(***************************************************************************)
\* normalize_url on a URL record: the fragment is gone, one trailing slash
\* is removed
normalize_url_rec(u) ==
    Url(u.scheme, u.netloc,
        IF u.path # <<>> /\ u.path[Len(u.path)] = "/"
        THEN SubSeq(u.path, 1, Len(u.path) - 1) ELSE u.path)

\* urljoin(base, href) for the absolute hrefs of the model
urljoin(base, href) == Url(href.scheme, href.netloc, href.path)

\* the hrefs of the pages: those of the other crawl and an inner page of the
\* site
PageHrefs == Hrefs \cup {Href("http", "a.com", <<"/", "a">>, FALSE)}

\* what get_canonical_url finds on a page: no link, or one of the hrefs
NoCanonical == Href("none", "", <<>>, FALSE)
Canonicals == {NoCanonical} \cup PageHrefs

\* base_domain = urlparse(domain).netloc
base_domain == domain.netloc

RECURSIVE EnqueueLinksC(_, _, _, _)
\* the loop over the anchors of a stored page
EnqueueLinksC(hrefs, store, vis, depth) ==
    IF hrefs = <<>> THEN <<>>
    ELSE LET link == urljoin(store, Head(hrefs))
             normalized_link == normalize_url_rec(link)
         IN  (IF link.netloc = base_domain /\ normalized_link \notin vis
              THEN <<<<normalized_link, depth + 1>>>> ELSE <<>>)
             \o EnqueueLinksC(Tail(hrefs), store, vis, depth)

CanonInit ==
    /\ domain \in {Url("http", "a.com", <<"/">>), Url("http", "a.com", <<>>)}
    /\ keywords = <<>>
    /\ max_pages = 1
    \* --max_depth is any int of the command line
    /\ max_depth \in (-1)..MaxDepthBound
    /\ queue = <<>>
    /\ seen = {}
    /\ pages = <<>>
    /\ pc = "done"
    /\ result = None
    /\ pagesFile = <<>>
    /\ pageDepth = <<>>
    /\ resp = NoneResp
    /\ cur = Task(NoneUrl, 0, FALSE)
    /\ robotsTxt \in {"rules", "URLError"}
    /\ NetIdle
    /\ ExtractIdle
    /\ CallIdle
    /\ UrlIdle
    /\ DedupIdle
    /\ MergeIdle
    /\ OverlapIdle
    /\ EnhanceIdle
    /\ queueC = <<<<domain, 0>>>>
    /\ visited = {}
    /\ results = <<>>
    /\ output_file = <<>>
    /\ pcC = "loop"

notCanonVars ==
    <<crawlVars, extractVars, callVars, urlVars, dedupVars, netVars, mergeVars,
      overlapVars, enhanceVars>>

\* depth > max_depth: continue
SkipDeepC ==
    /\ pcC = "loop" /\ queueC # <<>>
    /\ Head(queueC)[2] > max_depth
    /\ queueC' = Tail(queueC)
    /\ UNCHANGED <<visited, results, output_file, pcC>>
    /\ UNCHANGED notCanonVars

\* normalized_url in visited: continue
SkipVisitedC ==
    /\ pcC = "loop" /\ queueC # <<>>
    /\ ~(Head(queueC)[2] > max_depth)
    /\ normalize_url_rec(Head(queueC)[1]) \in visited
    /\ queueC' = Tail(queueC)
    /\ UNCHANGED <<visited, results, output_file, pcC>>
    /\ UNCHANGED notCanonVars

\* the URL is marked visited and nothing is stored: robots.txt denies it,
\* requests.get raises or the response is not a 200 HTML page
SkipUnfetchedC ==
    /\ pcC = "loop" /\ queueC # <<>>
    /\ ~(Head(queueC)[2] > max_depth)
    /\ LET normalized_url == normalize_url_rec(Head(queueC)[1])
       IN  /\ normalized_url \notin visited
           /\ \/ \E rule_allows \in BOOLEAN :
                    ~is_allowed_by_robots(get_robots_parser(robotsTxt), rule_allows)
              \/ /\ \E rule_allows \in BOOLEAN :
                       is_allowed_by_robots(get_robots_parser(robotsTxt), rule_allows)
                 /\ \E r \in Responses : fetch(r) = NoneResp
           /\ visited' = visited \cup {normalized_url}
    /\ queueC' = Tail(queueC)
    /\ UNCHANGED <<results, output_file, pcC>>
    /\ UNCHANGED notCanonVars

\* the page is fetched; it is dropped when its canonical URL is another,
\* visited one, and stored under its canonical URL otherwise; the links of
\* a stored page above max_depth are enqueued.  A page with an empty title
\* element raises at soup.title.string.strip(): its URLs stay visited and
\* nothing is stored.
FetchPageC ==
    /\ pcC = "loop" /\ queueC # <<>>
    /\ ~(Head(queueC)[2] > max_depth)
    /\ LET depth == Head(queueC)[2]
           normalized_url == normalize_url_rec(Head(queueC)[1])
       IN  /\ normalized_url \notin visited
           /\ \E rule_allows \in BOOLEAN :
                 is_allowed_by_robots(get_robots_parser(robotsTxt), rule_allows)
           /\ \E r \in Responses, canon \in Canonicals, title_raises \in BOOLEAN,
                 hrefs \in SeqsUpTo(PageHrefs, MaxLinks) :
                 LET vis == visited \cup {normalized_url}
                     canonical_url == normalize_url_rec(urljoin(normalized_url, canon))
                     url_to_store == IF canon # NoCanonical THEN canonical_url
                                     ELSE normalized_url
                     vis2 == IF canon # NoCanonical THEN vis \cup {canonical_url}
                             ELSE vis
                 IN  /\ fetch(r) # NoneResp
                     /\ (title_raises \/ depth >= max_depth) => hrefs = <<>>
                     /\ IF canon # NoCanonical /\ canonical_url # normalized_url
                           /\ canonical_url \in vis
                        THEN /\ visited' = vis
                             /\ queueC' = Tail(queueC)
                             /\ UNCHANGED results
                        ELSE IF title_raises
                        THEN /\ visited' = vis2
                             /\ queueC' = Tail(queueC)
                             /\ UNCHANGED results
                        ELSE /\ visited' = vis2
                             /\ results' = Append(results, [url |-> url_to_store])
                             /\ queueC' = Tail(queueC)
                                   \o (IF depth < max_depth
                                       THEN EnqueueLinksC(hrefs, url_to_store, vis2, depth)
                                       ELSE <<>>)
    /\ UNCHANGED <<output_file, pcC>>
    /\ UNCHANGED notCanonVars

\* the queue is empty: the results are written to output_path
WriteResultsC ==
    /\ pcC = "loop" /\ queueC = <<>>
    /\ output_file' = results
    /\ pcC' = "done"
    /\ UNCHANGED <<queueC, visited, results>>
    /\ UNCHANGED notCanonVars

CanonNext ==
    \/ SkipDeepC
    \/ SkipVisitedC
    \/ SkipUnfetchedC
    \/ FetchPageC
    \/ WriteResultsC

CanonSpec == CanonInit /\ [][CanonNext]_vars

\* C30: the url of every stored page record is on the host of the input
\* domain, also when it was taken from the canonical link of the page.
C30_StoredUrlSameHost ==
    \A i \in 1..Len(results) : Lower(results[i].url.netloc) = Lower(domain.netloc)

(***************************************************************************)
(* URL functions on strings (src/api/validators.py, src/crawler/utils.py)  *)
(*                                                                         *)
(* A string is a sequence of tokens: scheme names, ":", "/", "#", "[",     *)
(* " " and the host or path segment "a".                                   *)
(***************************************************************************)
MaxUrlLen == 3         \* tokens after the scheme prefix of an argument

\* the tokens made of characters that may stand in a scheme
SchemeChars == {"http", "https", "ftp", "mailto", "javascript", "a"}

\* urllib.parse.uses_netloc, as far as the schemes of the model go
UsesNetloc == {<<"http">>, <<"https">>, <<"ftp">>}

\* str.find, counted from 1; 0 when the token does not occur
IndexOf(s, t) ==
    IF \E i \in 1..Len(s) : s[i] = t
    THEN CHOOSE i \in 1..Len(s) : s[i] = t /\ \A j \in 1..(i - 1) : s[j] # t
    ELSE 0

Take(s, n) == SubSeq(s, 1, n)
Drop(s, n) == SubSeq(s, n + 1, Len(s))

\* str.startswith
StartsWith(s, prefix) ==
    Len(s) >= Len(prefix) /\ Take(s, Len(prefix)) = prefix

RECURSIVE LStripSpaces(_)
LStripSpaces(s) ==
    IF s # <<>> /\ Head(s) = " " THEN LStripSpaces(Tail(s)) ELSE s

RECURSIVE RStripSpaces(_)
RStripSpaces(s) ==
    IF s # <<>> /\ s[Len(s)] = " " THEN RStripSpaces(Take(s, Len(s) - 1)) ELSE s

\* str.strip()
StripSpaces(s) == RStripSpaces(LStripSpaces(s))

\* urllib.parse.urlparse: the scheme is what precedes the first ":" when
\* that is made of scheme characters; the network location is what follows
\* a "//" up to the next "/", "?" or "#"; an unmatched "[" in it raises
\* ValueError
urlparse(u) ==
    LET i == IndexOf(u, ":")
        hasScheme == i > 1 /\ \A j \in 1..(i - 1) : u[j] \in SchemeChars
        scheme == IF hasScheme THEN Take(u, i - 1) ELSE <<>>
        rest == IF hasScheme THEN Drop(u, i) ELSE u
        hasNetloc == StartsWith(rest, <<"/", "/">>)
        after == Drop(rest, 2)
        stops == {j \in 1..Len(after) : after[j] \in {"/", "?", "#"}}
        end == IF stops = {} THEN Len(after) + 1
               ELSE CHOOSE j \in stops : \A k \in stops : j <= k
        netloc == IF hasNetloc THEN Take(after, end - 1) ELSE <<>>
        tail == IF hasNetloc THEN Drop(after, end - 1) ELSE rest
        h == IndexOf(tail, "#")
    IN  [raises |-> \E j \in 1..Len(netloc) : netloc[j] = "[",
         scheme |-> scheme,
         netloc |-> netloc,
         path |-> IF h = 0 THEN tail ELSE Take(tail, h - 1)]

\* urllib.parse.urlunparse of a parsed URL whose fragment is dropped
urlunparse(parsed) ==
    LET path == parsed.path
        slashes == parsed.netloc # <<>>
                   \/ (/\ parsed.scheme # <<>>
                       /\ parsed.scheme \in UsesNetloc
                       /\ ~StartsWith(path, <<"/", "/">>))
        rooted == IF path # <<>> /\ Head(path) # "/" THEN <<"/">> \o path ELSE path
        hier == IF slashes THEN <<"/", "/">> \o parsed.netloc \o rooted ELSE path
    IN  IF parsed.scheme # <<>> THEN parsed.scheme \o <<":">> \o hier ELSE hier

\* what a call gives back
Returns(v) == [kind |-> "value", value |-> v]
Raises(e) == [kind |-> e, value |-> <<>>]

\* validate_url
validate_url(u) ==
    IF u = <<>> THEN Raises("ValidationError")
    ELSE LET stripped == StripSpaces(u)
             full == IF \/ StartsWith(stripped, <<"http", ":", "/", "/">>)
                        \/ StartsWith(stripped, <<"https", ":", "/", "/">>)
                     THEN stripped
                     ELSE <<"https", ":", "/", "/">> \o stripped
             parsed == urlparse(full)
         IN  IF parsed.raises THEN Raises("ValidationError")
             ELSE IF parsed.netloc = <<>> THEN Raises("ValidationError")
             ELSE IF parsed.scheme \notin {<<"http">>, <<"https">>}
                  THEN Raises("ValidationError")
             ELSE Returns(full)

\* urllib.parse.urldefrag: a string without "#" is returned as it is, any
\* other is parsed and put together again without its fragment
urldefrag(u) ==
    IF IndexOf(u, "#") = 0 THEN Returns(u)
    ELSE IF urlparse(u).raises THEN Raises("ValueError")
    ELSE Returns(urlunparse(urlparse(u)))

\* normalize_url of crawler/utils.py: drop the fragment and one trailing "/"
normalize_url(u) ==
    LET d == urldefrag(u)
    IN  IF d.kind # "value" THEN d
        ELSE IF d.value # <<>> /\ d.value[Len(d.value)] = "/"
             THEN Returns(Take(d.value, Len(d.value) - 1))
             ELSE d

\* the arguments of the model: nothing or a scheme in front, then up to
\* MaxUrlLen tokens
UrlPrefixes ==
    { <<>>,
      <<"http", ":", "/", "/">>,
      <<"https", ":", "/", "/">>,
      <<"ftp", ":", "/", "/">>,
      <<"mailto", ":">>,
      <<"javascript", ":">> }

UrlBodyTokens == {"a", "/", "#", "["}

UrlInputs ==
    {pre \o body : pre \in UrlPrefixes, body \in SeqsUpTo(UrlBodyTokens, MaxUrlLen)}

UrlInit ==
    /\ CrawlIdle
    /\ RestIdle
    /\ ExtractIdle
    /\ CallIdle
    /\ DedupIdle
    /\ url_arg \in UrlInputs
    /\ url_fn = "none"
    /\ url_result = NoResult

\* CrawlRequest validates its domain field
CallValidateUrl ==
    /\ url_fn = "none"
    /\ url_fn' = "validate_url"
    /\ url_result' = validate_url(url_arg)
    /\ UNCHANGED url_arg
    /\ UNCHANGED notUrlVars

\* a URL is normalized
CallNormalizeUrl ==
    /\ url_fn = "none"
    /\ url_fn' = "normalize_url"
    /\ url_result' = normalize_url(url_arg)
    /\ UNCHANGED url_arg
    /\ UNCHANGED notUrlVars

\* the normalized URL is normalized again
CallNormalizeAgain ==
    /\ url_fn = "normalize_url"
    /\ url_result.kind = "value"
    /\ url_arg' = url_result.value
    /\ url_fn' = "normalize_url again"
    /\ url_result' = normalize_url(url_result.value)
    /\ UNCHANGED notUrlVars

UrlNext ==
    \/ CallValidateUrl
    \/ CallNormalizeUrl
    \/ CallNormalizeAgain

UrlSpec == UrlInit /\ [][UrlNext]_vars

\* C16: validate_url raises ValidationError for every argument that begins
\* with a scheme other than http and https, and whatever it returns has the
\* scheme http or https.
C16_NonHttpSchemeRejected ==
    url_fn = "validate_url"
    => /\ urlparse(url_arg).scheme \notin {<<>>, <<"http">>, <<"https">>}
            => url_result.kind = "ValidationError"
       /\ url_result.kind = "value"
            => urlparse(url_result.value).scheme \in {<<"http">>, <<"https">>}

\* C18: normalizing a normalized URL returns it unchanged.
C18_NormalizeIdempotent ==
    url_fn = "normalize_url again"
    => /\ url_result.kind = "value"
       /\ url_result.value = url_arg

====
